---- MODULE Spec2Model ----
(***************************************************************************)
(* A model of the geometric / shading core of the ray tracer:              *)
(*   hit and prepare_computations   (src/src/scene/intersect.rs)           *)
(*   Bounded, Bounds                (src/src/scene/object/bounded.rs)      *)
(*   Transformed                    (src/src/scene/object/transformed.rs)  *)
(*   Plane, Cube                    (src/src/scene/object/{plane,cube}.rs) *)
(*   lighting, Material             (src/src/scene/material.rs)            *)
(*                                                                         *)
(* f64 values are modelled as pairs <<n, d>>: the rational n/d for d > 0   *)
(* (in lowest terms), and for d = 0 the IEEE-754 specials +infinity        *)
(* <<1,0>>, -infinity <<-1,0>> and NaN <<0,0>>.  Arithmetic is exact (no   *)
(* rounding) and there is a single zero (+0.0).                            *)
(***************************************************************************)
EXTENDS Integers, Sequences, FiniteSets, TLC

VARIABLES
    op,             \* the operation that ran last ("none" before any)
    shape,          \* the innermost primitive of the scene object
    wrappers,       \* the decorators around it, innermost first
    panicked,       \* TRUE once an operation has panicked (todo!(), unwrap())
    ray,            \* the ray handed to the last intersect
    xs,             \* the Vec<Intersection> the last intersect returned
    trace,          \* the Object methods the last operation invoked, in order
    bounds_out,     \* the Bounds the last bounds() returned
    material_out,   \* the &Material the last material() returned
    args,           \* a function of the shapes, bounds or materials: its arguments
    result,         \* ... and the value it returned
    intersections,  \* hit: the slice handed to hit
    hit_out,        \* hit: index of the returned element, 0 for None
    prep,           \* prepare_computations: its inputs
    comps,          \* prepare_computations: the Precomputation it returned
    lit,            \* lighting: its inputs
    color           \* lighting: the Color it returned

vars == <<op, shape, wrappers, panicked, ray, xs, trace, bounds_out, material_out,
          args, result,
          intersections, hit_out, prep, comps, lit, color>>

sceneVars == <<shape, wrappers, panicked, ray, xs, trace, bounds_out, material_out>>
fnVars == <<args, result>>
hitVars == <<intersections, hit_out>>
prepVars == <<prep, comps>>
lightVars == <<lit, color>>

\* The value of a variable that holds nothing (yet).
Nil == [nil |-> TRUE]

-----------------------------------------------------------------------------
(* Idle values of the variable groups an operation does not use            *)

SceneIdle ==
    /\ shape = Nil /\ wrappers = <<>> /\ panicked = FALSE
    /\ ray = Nil /\ xs = Nil /\ trace = <<>> /\ bounds_out = Nil
    /\ material_out = Nil
HitIdle == intersections = <<>> /\ hit_out = Nil
PrepIdle == prep = Nil /\ comps = Nil
LightIdle == lit = Nil /\ color = Nil
FnIdle == args = Nil /\ result = Nil

-----------------------------------------------------------------------------
(* f64                                                                     *)

Abs(n) == IF n < 0 THEN -n ELSE n

RECURSIVE Gcd(_, _)
Gcd(a, b) == IF b = 0 THEN a ELSE Gcd(b, a % b)

Sgn(n) == IF n > 0 THEN 1 ELSE IF n < 0 THEN -1 ELSE 0

\* The f64 n/d, d # 0, in lowest terms with a positive denominator.
Rat(n, d) ==
    LET g == Gcd(Abs(n), Abs(d))
        s == Sgn(d)
    IN  <<s * (n \div g), s * (d \div g)>>

F(n) == <<n, 1>>
Zero == <<0, 1>>
One == <<1, 1>>
INFINITY == <<1, 0>>
NEG_INFINITY == <<-1, 0>>
NAN == <<0, 0>>

is_nan(a) == a = NAN
is_infinite(a) == a[2] = 0 /\ a[1] # 0
IsFinite(a) == a[2] # 0

\* -a
Neg(a) == <<-a[1], a[2]>>

\* a + b
Add(a, b) ==
    IF is_nan(a) \/ is_nan(b) THEN NAN
    ELSE IF is_infinite(a) /\ is_infinite(b) THEN (IF a = b THEN a ELSE NAN)
    ELSE IF is_infinite(a) THEN a
    ELSE IF is_infinite(b) THEN b
    ELSE LET g == Gcd(a[2], b[2])
         IN  Rat(a[1] * (b[2] \div g) + b[1] * (a[2] \div g), (a[2] \div g) * b[2])

\* a - b
Sub(a, b) == Add(a, Neg(b))

\* a * b
Mul(a, b) ==
    IF is_nan(a) \/ is_nan(b) THEN NAN
    ELSE IF is_infinite(a) \/ is_infinite(b)
         THEN <<Sgn(a[1]) * Sgn(b[1]), 0>>      \* infinity * 0 is NaN
    ELSE LET g1 == Gcd(Abs(a[1]), b[2])
             g2 == Gcd(Abs(b[1]), a[2])
         IN  Rat((a[1] \div g1) * (b[1] \div g2), (a[2] \div g2) * (b[2] \div g1))

\* a / b
Div(a, b) ==
    IF is_nan(a) \/ is_nan(b) THEN NAN
    ELSE IF is_infinite(b) THEN (IF is_infinite(a) THEN NAN ELSE Zero)
    ELSE IF b[1] = 0 THEN <<Sgn(a[1]), 0>>      \* x / 0 is +-infinity, 0 / 0 is NaN
    ELSE IF is_infinite(a) THEN <<Sgn(a[1]) * Sgn(b[1]), 0>>
    ELSE Mul(a, Rat(b[2], b[1]))

\* a < b; every comparison with NaN is false
Lt(a, b) ==
    IF is_nan(a) \/ is_nan(b) THEN FALSE
    ELSE IF is_infinite(a) /\ is_infinite(b) THEN a[1] < b[1]
    ELSE IF is_infinite(a) THEN a[1] < 0
    ELSE IF is_infinite(b) THEN b[1] > 0
    ELSE LET g == Gcd(a[2], b[2])
         IN  a[1] * (b[2] \div g) < b[1] * (a[2] \div g)

Gt(a, b) == Lt(b, a)
Le(a, b) == ~is_nan(a) /\ ~is_nan(b) /\ ~Lt(b, a)
Ge(a, b) == Le(b, a)

\* f64::max, f64::min: a NaN operand is ignored
FMax(a, b) == IF is_nan(a) THEN b ELSE IF is_nan(b) THEN a ELSE IF Lt(a, b) THEN b ELSE a
FMin(a, b) == IF is_nan(a) THEN b ELSE IF is_nan(b) THEN a ELSE IF Lt(b, a) THEN b ELSE a

\* f64::abs
FAbs(a) == <<Abs(a[1]), a[2]>>

\* f64::powf for an exponent that is a natural number
RECURSIVE Powf(_, _)
Powf(a, k) == IF k = 0 THEN One ELSE Mul(a, Powf(a, k - 1))

\* The natural number whose square is n (n a perfect square).
ISqrt(n) == CHOOSE r \in 0..n : r * r = n

IsSquare(n) == \E r \in 0..n : r * r = n

\* f64::sqrt of a finite value whose root is rational
Sqrt(a) == <<ISqrt(a[1]), ISqrt(a[2])>>

-----------------------------------------------------------------------------
(* Point3d, Vec3d, NormalizedVec3d, Color: triples of f64                  *)

V3(x, y, z) == <<F(x), F(y), F(z)>>

VAdd(a, b) == <<Add(a[1], b[1]), Add(a[2], b[2]), Add(a[3], b[3])>>
VSub(a, b) == <<Sub(a[1], b[1]), Sub(a[2], b[2]), Sub(a[3], b[3])>>
VNeg(a) == <<Neg(a[1]), Neg(a[2]), Neg(a[3])>>
VScale(a, k) == <<Mul(a[1], k), Mul(a[2], k), Mul(a[3], k)>>
\* componentwise (Hadamard) product, the product of two Colors
VMul(a, b) == <<Mul(a[1], b[1]), Mul(a[2], b[2]), Mul(a[3], b[3])>>
Dot(a, b) == Add(Add(Mul(a[1], b[1]), Mul(a[2], b[2])), Mul(a[3], b[3]))

\* Vec3d::norm / NormalizedVec3d::try_from: Nil (an Err) for a zero-length
\* vector, else the vector scaled to length 1.
Normalized(v, magnitude) ==
    IF magnitude = Zero THEN Nil
    ELSE <<Div(v[1], magnitude), Div(v[2], magnitude), Div(v[3], magnitude)>>

Norm(v) == Normalized(v, Sqrt(Dot(v, v)))

\* Vec3d::reflect: self - normal * 2 * (self . normal)
Reflect(v, n) == VSub(v, VScale(n, Mul(F(2), Dot(v, n))))

black == V3(0, 0, 0)
white == V3(1, 1, 1)

-----------------------------------------------------------------------------
(* hit                                                                     *)

\* Intersection::new
Intersection(t, object) == [t |-> t, object |-> object]

\* HitStep with t = 0 counted as behind the ray (> for >=).
HitStep_ZeroMisses(list, acc, i) ==
    IF Gt(list[i].t, Zero)
    THEN IF acc # 0
         THEN (IF Lt(list[acc].t, list[i].t) THEN acc ELSE i)
         ELSE i
    ELSE acc

\* HitStep keeping the earlier element on a tie (<= for <).
HitStep_KeepsFirst(list, acc, i) ==
    IF Ge(list[i].t, Zero)
    THEN IF acc # 0
         THEN (IF Le(list[acc].t, list[i].t) THEN acc ELSE i)
         ELSE i
    ELSE acc

\* One step of hit's fold: acc is the index of the lowest element so far
\* (0 for None), i the index of the element visited.
HitStep(list, acc, i) ==
    IF Ge(list[i].t, Zero)
    THEN IF acc # 0
         THEN (IF Lt(list[acc].t, list[i].t) THEN acc ELSE i)
         ELSE i
    ELSE acc

RECURSIVE HitFold(_, _)
\* The fold over the first n elements, starting from None.
HitFold(list, n) == IF n = 0 THEN 0 ELSE HitStep(list, HitFold(list, n - 1), n)

\* hit(intersections): the index of the element returned, 0 for None
hit(list) == HitFold(list, Len(list))

-----------------------------------------------------------------------------
(* Ray and InvertibleMatrix<4>                                             *)

Ray(origin, direction) == [origin |-> origin, direction |-> direction]

\* Ray::position: origin + direction * t
Position(r, t) == VAdd(r.origin, VScale(r.direction, t))

\* An InvertibleMatrix<4> of the family the operations are exercised with:
\* the affine map p |-> diag * p + col (componentwise), every diag entry
\* non-zero.  Translations and scalings are of this family, and it is closed
\* under product and inverse.
Matrix(diag, col) == [diag |-> diag, col |-> col]
identity == Matrix(V3(1, 1, 1), V3(0, 0, 0))
translation(x, y, z) == Matrix(V3(1, 1, 1), V3(x, y, z))
scaling(x, y, z) == Matrix(V3(x, y, z), V3(0, 0, 0))

\* InvertibleMatrix::inverse: p |-> (p - col) / diag
Inverse(m) ==
    Matrix(<<Div(One, m.diag[1]), Div(One, m.diag[2]), Div(One, m.diag[3])>>,
           <<Neg(Div(m.col[1], m.diag[1])), Neg(Div(m.col[2], m.diag[2])),
             Neg(Div(m.col[3], m.diag[3]))>>)

\* matrix * point: the translation column applies (w = 1)
MulPoint(m, p) == VAdd(VMul(m.diag, p), m.col)
\* matrix * vector: the translation column does not apply (w = 0)
MulVec(m, v) == VMul(m.diag, v)

\* Ray::transform: the matrix applied to the origin and to the direction
RayTransform(r, m) == Ray(MulPoint(m, r.origin), MulVec(m, r.direction))

-----------------------------------------------------------------------------
(* Bounds and the Bounded test                                             *)

Bounds(minimum, maximum) == [minimum |-> minimum, maximum |-> maximum]

\* impl Default for Bounds: unbounded on every axis
DefaultBounds ==
    Bounds(<<NEG_INFINITY, NEG_INFINITY, NEG_INFINITY>>, <<INFINITY, INFINITY, INFINITY>>)

\* if tmin > tmax { (tmax, tmin) } else { (tmin, tmax) }
Ordered(tmin, tmax) == IF Gt(tmin, tmax) THEN <<tmax, tmin>> ELSE <<tmin, tmax>>

\* check_axis of bounded.rs: the parameter interval in which the ray is between
\* min and max on one axis
check_axis(min, max, origin, speed) ==
    LET distance_to_min == Sub(min, origin)
        distance_to_max == Sub(max, origin)
        tmin == Div(distance_to_min, speed)
        tmax == Div(distance_to_max, speed)
    IN  Ordered(tmin, tmax)

\* The end of Bounded::test, given the three per-axis intervals.
Overlap(x, y, z) ==
    LET tmin == FMax(FMax(x[1], y[1]), z[1])
        tmax == FMin(FMin(x[2], y[2]), z[2])
    IN  Le(tmin, tmax)

\* Bounded::test with the stored bounds b
test(b, r) ==
    Overlap(check_axis(b.minimum[1], b.maximum[1], r.origin[1], r.direction[1]),
            check_axis(b.minimum[2], b.maximum[2], r.origin[2], r.direction[2]),
            check_axis(b.minimum[3], b.maximum[3], r.origin[3], r.direction[3]))

-----------------------------------------------------------------------------
(* The primitives: Plane and Cube                                          *)

\* Surface::color_at of Material::default().surface, the flat Color (1, 1, 1)
DefaultSurfaceColorAt(point) == white

\* Plane::normal_at
PlaneNormalAt(point) == V3(0, 1, 0)

\* Plane::bounds
PlaneBounds ==
    Bounds(<<NEG_INFINITY, F(-100000000), NEG_INFINITY>>,
           <<INFINITY, F(100000000), INFINITY>>)

\* Plane::intersect's threshold on |direction.y|: 1e-8
PlaneEpsilon == <<1, 100000000>>

\* NormalizedVec3d::new: Nil (an Err) for a zero-length vector
NormalizedVec3d(x, y, z) == Norm(<<x, y, z>>)

\* The branches of Cube::normal_at_local tried in the order z, y, x.
CubeNormalOf_ZFirst(p, max_component) ==
    IF ~is_nan(max_component) /\ max_component = FAbs(p[3])
    THEN NormalizedVec3d(Zero, Zero, p[3])
    ELSE IF ~is_nan(max_component) /\ max_component = FAbs(p[2])
    THEN NormalizedVec3d(Zero, p[2], Zero)
    ELSE NormalizedVec3d(p[1], Zero, Zero)

\* The branches of Cube::normal_at_local, given max_component.
CubeNormalOf(p, max_component) ==
    IF ~is_nan(max_component) /\ max_component = FAbs(p[1])
    THEN NormalizedVec3d(p[1], Zero, Zero)
    ELSE IF ~is_nan(max_component) /\ max_component = FAbs(p[2])
    THEN NormalizedVec3d(Zero, p[2], Zero)
    ELSE NormalizedVec3d(Zero, Zero, p[3])

\* Cube::normal_at_local; Nil stands for the panic of unwrap() on an Err
CubeNormalAtLocal(p) == CubeNormalOf(p, FMax(FMax(FAbs(p[1]), FAbs(p[2])), FAbs(p[3])))

\* check_axis of cube.rs treating a zero direction as a special case: the
\* whole line, wherever the origin is.
cube_check_axis_Special(origin, direction) ==
    IF direction = Zero THEN <<NEG_INFINITY, INFINITY>>
    ELSE Ordered(Div(Sub(F(-1), origin), direction), Div(Sub(One, origin), direction))

\* check_axis of cube.rs: the slab [-1, 1] on one axis
cube_check_axis(origin, direction) ==
    LET tmin_numerator == Sub(F(-1), origin)
        tmax_numerator == Sub(One, origin)
        tmin == Div(tmin_numerator, direction)
        tmax == Div(tmax_numerator, direction)
    IN  Ordered(tmin, tmax)

\* The end of Cube::intersect_local with a touching ray counted as a miss.
CubeRoots_MissOnTouch(tmin, tmax) == IF Ge(tmin, tmax) THEN <<>> ELSE <<tmin, tmax>>

\* The end of Cube::intersect_local, given tmin and tmax.
CubeRoots(tmin, tmax) == IF Gt(tmin, tmax) THEN <<>> ELSE <<tmin, tmax>>

\* The middle of Cube::intersect_local, given the three per-axis intervals.
CubeSlabs(x, y, z) ==
    CubeRoots(FMax(FMax(x[1], y[1]), z[1]), FMin(FMin(x[2], y[2]), z[2]))

\* Cube::intersect_local: the roots, in order
CubeIntersectLocal(r) ==
    CubeSlabs(cube_check_axis(r.origin[1], r.direction[1]),
              cube_check_axis(r.origin[2], r.direction[2]),
              cube_check_axis(r.origin[3], r.direction[3]))

\* object.normal_at(point) of a primitive
ShapeNormalAt(sh, point) ==
    IF sh = "plane" THEN PlaneNormalAt(point) ELSE CubeNormalAtLocal(point)

\* build_basic_intersection: the Intersection of the object `self` at t, with the
\* color and the normal of its surface at ray.position(t)
BuildBasicIntersection(sh, object_ray, t, self) ==
    [t |-> t, object |-> self,
     color |-> DefaultSurfaceColorAt(Position(object_ray, t)),
     normal |-> ShapeNormalAt(sh, Position(object_ray, t))]

\* The roots mapped to Intersections, in order.
BasicIntersections(sh, object_ray, roots, self) ==
    [i \in 1..Len(roots) |-> BuildBasicIntersection(sh, object_ray, roots[i], self)]

\* Plane::intersect giving up only when direction.y is exactly 0.
PlaneIntersect_ExactZero(object_ray, self) ==
    IF object_ray.direction[2] = Zero
    THEN <<>>
    ELSE BasicIntersections("plane", object_ray,
             <<Div(Neg(object_ray.origin[2]), object_ray.direction[2])>>, self)

\* Plane::intersect
PlaneIntersect(object_ray, self) ==
    IF Lt(FAbs(object_ray.direction[2]), PlaneEpsilon)
    THEN <<>>
    ELSE BasicIntersections("plane", object_ray,
             <<Div(Neg(object_ray.origin[2]), object_ray.direction[2])>>, self)

\* Object::intersect as derived for a Cube with the default (identity) transform:
\* one Intersection per root of intersect_local
CubeIntersectIn(local_ray, self) ==
    BasicIntersections("cube", local_ray, CubeIntersectLocal(local_ray), self)

CubeIntersect(world_ray, self) ==
    CubeIntersectIn(RayTransform(world_ray, Inverse(identity)), self)

\* The bounds the tests give their MockObject: the box [2,2,2] - [4,4,4]
MockBounds == Bounds(V3(2, 2, 2), V3(4, 4, 4))

\* MockObject::intersect: one Intersection, whatever the ray
MockIntersect(object_ray, self) ==
    <<[t |-> One, object |-> self, color |-> white, normal |-> V3(0, 0, -1)]>>

\* object.intersect(r) of a primitive
ShapeIntersect(sh, r, self) ==
    IF sh = "plane" THEN PlaneIntersect(r, self)
    ELSE IF sh = "cube" THEN CubeIntersect(r, self)
    ELSE MockIntersect(r, self)

-----------------------------------------------------------------------------
(* The scene object: a primitive inside a stack of decorators.             *)
(* obj = [shape, wrappers]; the object at depth k is the primitive (k = 0) *)
(* or the decorator wrappers[k] around the object at depth k - 1.  An      *)
(* object reference (&dyn Object) is the depth of the object referred to.  *)

Object(sh, ws) == [shape |-> sh, wrappers |-> ws]

\* struct Bounded { bounds, child }
Bounded(b) == [kind |-> "Bounded", bounds |-> b]
\* struct Transformed { child, transform }
Transformed(m) == [kind |-> "Transformed", transform |-> m]

\* One invocation of an Object method, as recorded in the trace.
Call(fn, self, arg) == [fn |-> fn, self |-> self, arg |-> arg]

\* What an invocation of intersect yields: the Vec returned and the invocations
\* of Object methods it made, in order.
Returned(list, calls) == [xs |-> list, calls |-> calls]

RECURSIVE Intersect(_, _, _)

\* Bounded::intersect delegating whatever test says.
BoundedIntersect_NoTest(obj, k, r) == Intersect(obj, k - 1, r)

\* Bounded::intersect
BoundedIntersect(obj, k, r) ==
    IF test(obj.wrappers[k].bounds, r)
    THEN Intersect(obj, k - 1, r)
    ELSE Returned(<<>>, <<>>)

\* xs.into_iter().map(|x| Intersection::new(x.t(), self)).collect()
Retagged(child, self) ==
    Returned([i \in 1..Len(child.xs) |-> Intersection(child.xs[i].t, self)], child.calls)

\* Transformed::intersect keeping the child's intersections as they are.
TransformedIntersect_NoRetag(obj, k, r) ==
    Intersect(obj, k - 1, RayTransform(r, Inverse(obj.wrappers[k].transform)))

\* Transformed::intersect mapping the ray by the transform, not by its inverse.
TransformedIntersect_Forward(obj, k, r) ==
    Retagged(Intersect(obj, k - 1, RayTransform(r, obj.wrappers[k].transform)), k)

\* Transformed::intersect: local_ray = object_ray.transform(&self.transform.inverse())
TransformedIntersect(obj, k, r) ==
    Retagged(Intersect(obj, k - 1, RayTransform(r, Inverse(obj.wrappers[k].transform))), k)

\* The invocation `call` and what it yielded.
Invoked(call, res) == Returned(res.xs, <<call>> \o res.calls)

\* object.intersect(r) for the object at depth k: dynamic dispatch on its type
Intersect(obj, k, r) ==
    Invoked(Call("intersect", k, r),
            IF k = 0
            THEN Returned(ShapeIntersect(obj.shape, r, k), <<>>)
            ELSE IF obj.wrappers[k].kind = "Bounded"
            THEN BoundedIntersect(obj, k, r)
            ELSE TransformedIntersect(obj, k, r))

\* The value of an operation that panicked.
Panic == [panic |-> TRUE]

\* Transformed::bounds: todo!()
TransformedBounds(obj, k) == Panic

\* Bounded::bounds: a clone of the stored bounds
BoundedBounds(obj, k) == obj.wrappers[k].bounds

\* Object::bounds of a Cube: the trait's default, unbounded
CubeBounds == DefaultBounds

\* object.bounds() for the object at depth k
ObjectBounds(obj, k) ==
    IF k = 0 THEN (IF obj.shape = "plane" THEN PlaneBounds
                   ELSE IF obj.shape = "cube" THEN CubeBounds ELSE MockBounds)
    ELSE IF obj.wrappers[k].kind = "Bounded" THEN BoundedBounds(obj, k)
    ELSE TransformedBounds(obj, k)

-----------------------------------------------------------------------------
(* The materials of the scene objects                                      *)

\* The fields of Material that lighting reads; shininess, an f64 in the
\* code, is kept as the natural number it holds.
Material(ambient, diffuse, specular, shininess) ==
    [ambient |-> ambient, diffuse |-> diffuse, specular |-> specular,
     shininess |-> shininess]

\* A &Material: the address of the instance referred to, and the value that
\* is read through the reference.
MaterialRef(addr, value) == [addr |-> addr, value |-> value]

\* Equality of materials by the values of their fields.
MaterialEq_Structural(self, other) == self.value = other.value

\* impl PartialEq for Material: std::ptr::eq(self, other)
MaterialEq(self, other) == self.addr = other.addr

\* Material::default()
DefaultMaterial == Material(Rat(1, 10), Rat(9, 10), Rat(9, 10), 200)

RECURSIVE ObjectMaterial(_, _)

\* Transformed::material answering with a reference to a copy of the
\* child's material that the wrapper keeps itself.
TransformedMaterial_OwnCopy(obj, k) == MaterialRef(k, ObjectMaterial(obj, k - 1).value)

\* Transformed::material: self.child.material()
TransformedMaterial(obj, k) == ObjectMaterial(obj, k - 1)

\* Bounded::material: self.child.material()
BoundedMaterial(obj, k) == ObjectMaterial(obj, k - 1)

\* Plane::material, Cube::material: &self.material, a field of the object
\* at depth 0, whose address is modelled by that depth
ShapeMaterial(obj) == MaterialRef(0, DefaultMaterial)

\* object.material() for the object at depth k
ObjectMaterial(obj, k) ==
    IF k = 0 THEN ShapeMaterial(obj)
    ELSE IF obj.wrappers[k].kind = "Bounded" THEN BoundedMaterial(obj, k)
    ELSE TransformedMaterial(obj, k)

-----------------------------------------------------------------------------
(* The calls that object.bounds() makes                                    *)

RECURSIVE BoundsCalls(_, _)

\* Bounded::bounds recomputing its bounds from the child at every call.
BoundedBoundsCalls_AsksChild(obj, k) == BoundsCalls(obj, k - 1)

\* The Object methods Bounded::bounds invokes: none, self.bounds.clone()
\* does not involve the child
BoundedBoundsCalls(obj, k) == <<>>

\* The invocations of Object methods made by object.bounds() for the object
\* at depth k, itself included. The primitives return a constant and
\* Transformed::bounds panics before calling anything.
BoundsCalls(obj, k) ==
    <<Call("bounds", k, Nil)>> \o
        (IF k > 0 /\ obj.wrappers[k].kind = "Bounded" THEN BoundedBoundsCalls(obj, k) ELSE <<>>)

-----------------------------------------------------------------------------
(* The scene: an object is built up decorator by decorator and is asked to *)
(* intersect rays and for its bounds.                                      *)

MaxDepth == 2

Shapes == {"plane", "cube", "mock"}

\* The transforms the wrappers are built with.
Transforms == {translation(5, 0, 0), scaling(2, 2, 2)}

\* The rays cast at the object.
Origins ==
    {V3(0, 0, 0), V3(0, 0, -5), V3(5, 0, -5), V3(0, 1, 0), V3(5, 3, 3), V3(5, 4, 4),
     V3(10, 3, 3)}
Directions == {V3(0, 0, 1), V3(0, -1, 0), V3(-1, 0, 0), V3(0, 1, 1)}
Rays == {Ray(o, d) : o \in Origins, d \in Directions}

\* The whole object and the depth of its outermost layer.
scene == Object(shape, wrappers)
top == Len(wrappers)

Init ==
    /\ op = "none"
    /\ shape \in Shapes
    /\ wrappers = <<>>
    /\ panicked = FALSE
    /\ ray = Nil /\ xs = Nil /\ trace = <<>> /\ bounds_out = Nil
    /\ material_out = Nil
    /\ HitIdle /\ PrepIdle /\ LightIdle /\ FnIdle

\* Transformed { child: Box::new(object), transform: m }
NewTransformed(m) ==
    /\ ~panicked
    /\ top < MaxDepth
    /\ op' = "Transformed"
    /\ wrappers' = Append(wrappers, Transformed(m))
    /\ ray' = Nil /\ xs' = Nil /\ trace' = <<>> /\ bounds_out' = Nil
    /\ material_out' = Nil
    /\ UNCHANGED <<shape, panicked, hitVars, prepVars, lightVars, fnVars>>

\* Bounded::new(object): stores child.bounds()
NewBounded ==
    /\ ~panicked
    /\ top < MaxDepth
    /\ op' = "Bounded::new"
    /\ \E b \in {ObjectBounds(scene, top)} :
           /\ panicked' = (b = Panic)
           /\ wrappers' = IF b = Panic THEN wrappers ELSE Append(wrappers, Bounded(b))
    /\ trace' = BoundsCalls(scene, top)
    /\ ray' = Nil /\ xs' = Nil /\ bounds_out' = Nil /\ material_out' = Nil
    /\ UNCHANGED <<shape, hitVars, prepVars, lightVars, fnVars>>

\* object.intersect(&r) on the outermost object
IntersectRay(r) ==
    /\ ~panicked
    /\ op' = "intersect"
    /\ ray' = r
    /\ \E res \in {Intersect(scene, top, r)} :
           xs' = res.xs /\ trace' = res.calls
    /\ bounds_out' = Nil /\ material_out' = Nil
    /\ UNCHANGED <<shape, wrappers, panicked, hitVars, prepVars, lightVars, fnVars>>

\* object.bounds() on the outermost object
GetBounds ==
    /\ ~panicked
    /\ op' = "bounds"
    /\ \E b \in {ObjectBounds(scene, top)} :
           /\ panicked' = (b = Panic)
           /\ bounds_out' = IF b = Panic THEN Nil ELSE b
    /\ trace' = BoundsCalls(scene, top)
    /\ ray' = Nil /\ xs' = Nil /\ material_out' = Nil
    /\ UNCHANGED <<shape, wrappers, hitVars, prepVars, lightVars, fnVars>>

\* object.material() on the outermost object
GetMaterial ==
    /\ ~panicked
    /\ op' = "material"
    /\ material_out' = ObjectMaterial(scene, top)
    /\ trace' = <<>>
    /\ ray' = Nil /\ xs' = Nil /\ bounds_out' = Nil
    /\ UNCHANGED <<shape, wrappers, panicked, hitVars, prepVars, lightVars, fnVars>>

Next ==
    \/ \E m \in Transforms : NewTransformed(m)
    \/ NewBounded
    \/ \E r \in Rays : IntersectRay(r)
    \/ GetBounds
    \/ GetMaterial

Spec == Init /\ [][Next]_vars

-----------------------------------------------------------------------------
(* The decorators                                                          *)

IsBounded(k) == k >= 1 /\ wrappers[k].kind = "Bounded"
IsTransformed(k) == k >= 1 /\ wrappers[k].kind = "Transformed"

\* C3: Bounded.intersect(ray) returns an empty list without ever invoking the
\* child's intersect when test(ray) is false; when test(ray) is true it invokes
\* the child with the same ray and returns exactly the child's result (same count,
\* same order, same t, object, color and normal).  The invocations are checked at
\* every Bounded layer the ray reaches, the returned list at the outermost one.
C3_BoundedIntersect ==
    op = "intersect" =>
        /\ \A i \in 1..Len(trace) :
              IsBounded(trace[i].self) =>
                 IF test(wrappers[trace[i].self].bounds, trace[i].arg)
                 THEN /\ i < Len(trace)
                      /\ trace[i + 1] = Call("intersect", trace[i].self - 1, trace[i].arg)
                 ELSE i = Len(trace)
        /\ IsBounded(top) =>
              IF test(wrappers[top].bounds, ray)
              THEN xs = Intersect(scene, top - 1, ray).xs
              ELSE xs = <<>>

\* A Bounded object rejected a ray: nothing returned, nothing but the Bounded
\* itself invoked, although its child would have returned an intersection.
C3_Witness ==
    /\ op = "intersect"
    /\ IsBounded(top)
    /\ ~test(wrappers[top].bounds, ray)
    /\ xs = <<>>
    /\ trace = <<Call("intersect", top, ray)>>
    /\ Intersect(scene, top - 1, ray).xs # <<>>

\* C4 as stated: Bounded::new over a Transformed child and a Transformed over a
\* Bounded child are constructed without failure, and intersect and bounds can be
\* called on the result: no construction or call panics.
C4_DecoratorsCompose ==
    op \in {"Transformed", "Bounded::new", "intersect", "bounds"} => ~panicked

-----------------------------------------------------------------------------
(* hit applied to every list of at most MaxLen intersections               *)

MaxLen == 3

\* The t values of the intersections: negative, zero, positive, tied, NaN.
HitTs == {F(-2), F(-1), Zero, One, F(2), NAN}
\* The objects the intersections refer to.
HitObjects == {"s1", "s2"}

HitInputs ==
    UNION {[1..n -> {Intersection(t, o) : t \in HitTs, o \in HitObjects}] : n \in 0..MaxLen}

InitHit ==
    /\ op = "none"
    /\ intersections \in HitInputs
    /\ hit_out = Nil
    /\ SceneIdle /\ PrepIdle /\ LightIdle /\ FnIdle

Hit ==
    /\ op = "none"
    /\ op' = "hit"
    /\ hit_out' = hit(intersections)
    /\ UNCHANGED <<intersections, sceneVars, prepVars, lightVars, fnVars>>

NextHit == Hit

SpecHit == InitHit /\ [][NextHit]_vars

\* The positions of the list whose t is >= 0.
NonNegative(list) == {j \in 1..Len(list) : Ge(list[j].t, Zero)}

\* C1 as stated: hit returns an element with t >= 0 and no element has a smaller
\* non-negative t; it returns None exactly when every t of the list is negative.
C1_HitAsStated ==
    op = "hit" =>
        /\ hit_out # 0 =>
              /\ hit_out \in NonNegative(intersections)
              /\ \A j \in NonNegative(intersections) :
                    ~Lt(intersections[j].t, intersections[hit_out].t)
        /\ hit_out = 0 <=> \A j \in 1..Len(intersections) : Lt(intersections[j].t, Zero)

\* C1 (amended): hit returns an element with t >= 0 and no element has a smaller
\* non-negative t; it returns None exactly when no t of the list is >= 0, that is
\* when every t is negative or NaN.
C1_HitLowestNonNegative ==
    op = "hit" =>
        /\ hit_out # 0 =>
              /\ hit_out \in NonNegative(intersections)
              /\ \A j \in NonNegative(intersections) :
                    ~Lt(intersections[j].t, intersections[hit_out].t)
        /\ hit_out = 0 <=> NonNegative(intersections) = {}

\* hit chose the element with t = 0 over an earlier element with a larger t,
\* in a list that also holds a negative t.
C1_Witness ==
    /\ op = "hit"
    /\ hit_out # 0
    /\ intersections[hit_out].t = Zero
    /\ \E j \in 1..Len(intersections), k \in 1..(hit_out - 1) :
          /\ Lt(intersections[j].t, Zero)
          /\ Gt(intersections[k].t, Zero)

\* The positions that share the smallest non-negative t.
Lowest(list) ==
    {j \in NonNegative(list) : \A k \in NonNegative(list) : ~Lt(list[k].t, list[j].t)}

\* C2 as stated: of several intersections sharing the smallest non-negative t,
\* hit returns the one that appears first in the list.
C2_FirstOfTies ==
    op = "hit" /\ hit_out # 0 =>
        \A j \in Lowest(intersections) : hit_out <= j

\* C2 (amended): of several intersections sharing the smallest non-negative t,
\* hit returns the one that appears last in the list.
C2_LastOfTies ==
    op = "hit" /\ hit_out # 0 =>
        /\ hit_out \in Lowest(intersections)
        /\ \A j \in Lowest(intersections) : j <= hit_out

\* hit returned the later of two tied intersections on different objects.
C2_Witness ==
    /\ op = "hit"
    /\ hit_out # 0
    /\ \E j \in Lowest(intersections) :
          /\ j < hit_out
          /\ intersections[j].object # intersections[hit_out].object

-----------------------------------------------------------------------------
(* prepare_computations (src/src/scene/intersect.rs)                       *)

\* const SHADOW_BIAS: f64 = 1e-5
SHADOW_BIAS == Rat(1, 100000)

\* The Sphere an Intersection refers to: the unit sphere at the origin of its
\* own frame, placed in the world by its transform.
Sphere(id, transform) == [id |-> id, transform |-> transform]

\* Sphere::normal_at before normalisation: the point taken into the sphere's
\* frame, and the vector from the centre to it taken back by the transposed
\* inverse (for a matrix of the family above, its diagonal).
SphereWorldNormal(s, world_point) ==
    MulVec(Inverse(s.transform),
           VSub(MulPoint(Inverse(s.transform), world_point), V3(0, 0, 0)))

\* Sphere::normal_at; Nil: the normalisation failed.
SphereNormalAt(s, world_point) == Norm(SphereWorldNormal(s, world_point))

\* The branch of prepare_computations with the normal never negated.
Adjusted_NeverFlips(normal_v, normal_dot_eye) ==
    [normal_v |-> normal_v, inside |-> FALSE]

\* if normal_dot_eye < 0.0 { (-normal_v, true) } else { (normal_v, false) }
Adjusted(normal_v, normal_dot_eye) ==
    IF Lt(normal_dot_eye, Zero)
    THEN [normal_v |-> VNeg(normal_v), inside |-> TRUE]
    ELSE [normal_v |-> normal_v, inside |-> FALSE]

\* The Precomputation with over_point displaced against the adjusted normal.
Precomputation_BiasInward(t, object, point, eye_v, adjusted) ==
    [t |-> t, object |-> object, point |-> point, eye_v |-> eye_v,
     normal_v |-> adjusted.normal_v, inside |-> adjusted.inside,
     over_point |-> VSub(point, VScale(adjusted.normal_v, SHADOW_BIAS))]

\* The struct prepare_computations builds;
\* over_point = &point + &(&*adjusted_normal_v * SHADOW_BIAS)
Precomputation(t, object, point, eye_v, adjusted) ==
    [t |-> t, object |-> object, point |-> point, eye_v |-> eye_v,
     normal_v |-> adjusted.normal_v, inside |-> adjusted.inside,
     over_point |-> VAdd(point, VScale(adjusted.normal_v, SHADOW_BIAS))]

\* prepare_computations from the point on: unwrap() of a failed normalisation
\* panics, else the normal is adjusted and the struct built.
PrepareAt(t, object, point, eye_v, normal_v) ==
    IF eye_v = Nil \/ normal_v = Nil THEN Panic
    ELSE Precomputation(t, object, point, eye_v,
                        Adjusted(normal_v, Dot(normal_v, eye_v)))

\* prepare_computations once point = ray.position(t) is known
PrepareFrom(i, r, point) ==
    PrepareAt(i.t, i.object, point, Norm(VNeg(r.direction)),
              SphereNormalAt(i.object, point))

\* Intersection::prepare_computations(&self, ray)
prepare_computations(i, r) == PrepareFrom(i, r, Position(r, i.t))

-----------------------------------------------------------------------------
(* prepare_computations applied to rays, t values and spheres              *)

PrepOrigins == {V3(0, 0, -5), V3(0, 0, 0), V3(0, 1, -5), V3(0, -3, -5)}
\* unit, non-unit, oblique and zero-length directions
PrepDirections == {V3(0, 0, 1), V3(0, 0, 2), V3(0, 0, -1), V3(0, 3, 4), V3(0, 0, 0)}
PrepTs == {F(-1), Zero, One, F(2), F(4), F(5), Rat(5, 2)}
PrepSpheres ==
    {Sphere("s1", identity), Sphere("s2", translation(0, 0, 1)),
     Sphere("s3", scaling(2, 2, 2))}

\* The length of v is a rational number, so that f64::sqrt is modelled exactly.
HasRationalLength(v) == IsSquare(Dot(v, v)[1]) /\ IsSquare(Dot(v, v)[2])

PrepInput(r, t, s) == [ray |-> r, i |-> Intersection(t, s)]

PrepInputs ==
    {in \in {PrepInput(Ray(o, d), t, s) :
                o \in PrepOrigins, d \in PrepDirections, t \in PrepTs, s \in PrepSpheres} :
        /\ HasRationalLength(in.ray.direction)
        /\ HasRationalLength(SphereWorldNormal(in.i.object, Position(in.ray, in.i.t)))}

InitPrepare ==
    /\ op = "none"
    /\ prep \in PrepInputs
    /\ comps = Nil
    /\ SceneIdle /\ HitIdle /\ LightIdle /\ FnIdle

PrepareComputations ==
    /\ op = "none"
    /\ op' = "prepare_computations"
    /\ comps' = prepare_computations(prep.i, prep.ray)
    /\ UNCHANGED <<prep, sceneVars, hitVars, lightVars, fnVars>>

NextPrepare == PrepareComputations

SpecPrepare == InitPrepare /\ [][NextPrepare]_vars

\* prepare_computations returned a Precomputation (it did not panic).
Prepared == op = "prepare_computations" /\ comps # Panic

\* The normal the object reports at the point of the Precomputation.
ObjectNormal == SphereNormalAt(prep.i.object, comps.point)

\* C7: the returned normal has normal . eye >= 0, eye being the negated
\* (normalised) ray direction; inside is true exactly when the object's normal
\* at the point has a negative dot product with eye, and then the returned
\* normal is the exact negation of the object's normal; otherwise inside is
\* false and the object's normal is returned unchanged, also when the dot
\* product is 0.
C7_NormalFacesEye ==
    Prepared =>
        /\ comps.eye_v = Norm(VNeg(prep.ray.direction))
        /\ Ge(Dot(comps.normal_v, comps.eye_v), Zero)
        /\ comps.inside = Lt(Dot(ObjectNormal, comps.eye_v), Zero)
        /\ comps.inside => comps.normal_v = VNeg(ObjectNormal)
        /\ ~comps.inside => comps.normal_v = ObjectNormal

\* A ray that starts inside the sphere: the normal was negated.
C7_Witness ==
    /\ Prepared
    /\ comps.inside
    /\ Lt(Dot(ObjectNormal, comps.eye_v), Zero)
    /\ comps.normal_v # ObjectNormal

\* A grazing ray: the dot product is 0 and the normal is kept.
C7_Grazing ==
    /\ Prepared
    /\ Dot(ObjectNormal, comps.eye_v) = Zero
    /\ ~comps.inside

\* C8: point = ray.position(t); t and the object reference are those of the
\* intersection; over_point = point + SHADOW_BIAS * (the returned normal), so
\* over_point is off the point, on the eye's side of the surface, also when
\* the normal was negated because the ray started inside.
C8_OverPoint ==
    Prepared =>
        /\ comps.point = VAdd(prep.ray.origin, VScale(prep.ray.direction, prep.i.t))
        /\ comps.t = prep.i.t
        /\ comps.object = prep.i.object
        /\ comps.over_point = VAdd(comps.point, VScale(comps.normal_v, SHADOW_BIAS))
        /\ comps.over_point # comps.point
        /\ Ge(Dot(VSub(comps.over_point, comps.point), comps.eye_v), Zero)
        /\ comps.inside =>
              Lt(Dot(VSub(comps.over_point, comps.point), ObjectNormal), Zero)
        /\ ~comps.inside =>
              Gt(Dot(VSub(comps.over_point, comps.point), ObjectNormal), Zero)

\* The over_point of a hit from inside, displaced against the object's normal.
C8_Witness ==
    /\ Prepared
    /\ comps.inside
    /\ comps.over_point = VSub(comps.point, VScale(ObjectNormal, SHADOW_BIAS))
    /\ comps.over_point # comps.point

-----------------------------------------------------------------------------
(* Material and lighting (src/src/scene/material.rs)                       *)

PointLight(position, intensity) == [position |-> position, intensity |-> intensity]

\* if reflect_dot_eye <= 0.0 { black } else
\*     { &light.intensity * (material.specular * factor * shadow_attenuation) }
Specular(material, light, reflect_dot_eye, shadow_attenuation) ==
    IF Le(reflect_dot_eye, Zero) THEN black
    ELSE VScale(light.intensity,
                Mul(Mul(material.specular, Powf(reflect_dot_eye, material.shininess)),
                    shadow_attenuation))

\* The (diffuse, specular) pair of lighting
DiffuseSpecular(material, light, effective_color, lightv, eyev, normalv, shadow_attenuation, light_dot_normal) ==
    IF Lt(light_dot_normal, Zero)
    THEN [diffuse |-> black, specular |-> black]
    ELSE [diffuse |->
              VScale(VScale(VScale(effective_color, material.diffuse), light_dot_normal),
                     shadow_attenuation),
          specular |->
              Specular(material, light, Dot(VNeg(Reflect(lightv, normalv)), eyev),
                       shadow_attenuation)]

\* The sum with every component cut off at 1.
Shade_Clamped(ambient, ds) ==
    <<FMin(Add(Add(ambient[1], ds.diffuse[1]), ds.specular[1]), One),
      FMin(Add(Add(ambient[2], ds.diffuse[2]), ds.specular[2]), One),
      FMin(Add(Add(ambient[3], ds.diffuse[3]), ds.specular[3]), One)>>

\* &(&ambient + &diffuse) + &specular
Shade(ambient, ds) == VAdd(VAdd(ambient, ds.diffuse), ds.specular)

\* lighting with the ambient term attenuated like the diffuse one.
Lit_AmbientShadowed(material, light, effective_color, lightv, eyev, normalv, shadow_attenuation) ==
    IF lightv = Nil THEN Panic
    ELSE Shade(VScale(VScale(effective_color, material.ambient), shadow_attenuation),
               DiffuseSpecular(material, light, effective_color, lightv, eyev, normalv,
                               shadow_attenuation, Dot(lightv, normalv)))

\* A failed normalisation replaced by the zero vector
OrZeroVector(v) == IF v = Nil THEN <<Zero, Zero, Zero>> ELSE v

\* lighting going on with the zero vector where the normalisation failed.
Lit_Substituted(material, light, effective_color, lightv, eyev, normalv, shadow_attenuation) ==
    Shade(VScale(effective_color, material.ambient),
          DiffuseSpecular(material, light, effective_color, OrZeroVector(lightv), eyev,
                          normalv, shadow_attenuation, Dot(OrZeroVector(lightv), normalv)))

\* lighting once effective_color and lightv are known; the unwrap() of a
\* failed normalisation panics.
Lit(material, light, effective_color, lightv, eyev, normalv, shadow_attenuation) ==
    IF lightv = Nil THEN Panic
    ELSE Shade(VScale(effective_color, material.ambient),
               DiffuseSpecular(material, light, effective_color, lightv, eyev, normalv,
                               shadow_attenuation, Dot(lightv, normalv)))

\* lighting(material, point, object_color, light, eyev, normalv, shadow_attenuation)
lighting(material, point, object_color, light, eyev, normalv, shadow_attenuation) ==
    Lit(material, light, VMul(object_color, light.intensity),
        Norm(VSub(light.position, point)), eyev, normalv, shadow_attenuation)

-----------------------------------------------------------------------------
(* lighting applied to materials, lights, eyes, normals and attenuations   *)

\* The largest shininess exponent of the materials.
MaxShininess == 2

LightMaterials ==
    {Material(a, d, Rat(9, 10), k) :
        a \in {Rat(1, 10), One}, d \in {Zero, Rat(9, 10)}, k \in 0..MaxShininess}
LightPoints == {V3(0, 0, 0), V3(0, 6, 0)}
LightColors == {white, <<One, Rat(1, 2), Zero>>}
\* in front of the surface, behind it, off to the side, and at the first point
Lights ==
    {PointLight(p, c) :
        p \in {V3(0, 0, -10), V3(0, 0, 10), V3(0, 6, -8), V3(0, 0, 0)},
        c \in {white, <<F(2), One, Rat(1, 2)>>}}
LightEyes ==
    {V3(0, 0, -1), <<Zero, Rat(-3, 5), Rat(-4, 5)>>,
     <<Zero, Rat(3, 5), Rat(-4, 5)>>, V3(0, 0, 1)}
LightNormals == {V3(0, 0, -1), <<Zero, Rat(3, 5), Rat(-4, 5)>>}
\* fully occluded, half lit, fully lit
Attenuations == {Zero, Rat(1, 2), One}

LightInput(material, point, object_color, light, eyev, normalv, shadow_attenuation) ==
    [material |-> material, point |-> point, object_color |-> object_color,
     light |-> light, eyev |-> eyev, normalv |-> normalv,
     shadow_attenuation |-> shadow_attenuation]

LightInputs ==
    {in \in {LightInput(m, p, c, l, e, n, a) :
                m \in LightMaterials, p \in LightPoints, c \in LightColors, l \in Lights,
                e \in LightEyes, n \in LightNormals, a \in Attenuations} :
        HasRationalLength(VSub(in.light.position, in.point))}

InitLighting ==
    /\ op = "none"
    /\ lit \in LightInputs
    /\ color = Nil
    /\ SceneIdle /\ HitIdle /\ PrepIdle /\ FnIdle

Lighting ==
    /\ op = "none"
    /\ op' = "lighting"
    /\ color' = lighting(lit.material, lit.point, lit.object_color, lit.light,
                         lit.eyev, lit.normalv, lit.shadow_attenuation)
    /\ UNCHANGED <<lit, sceneVars, hitVars, prepVars, fnVars>>

NextLighting == Lighting

SpecLighting == InitLighting /\ [][NextLighting]_vars

\* lighting returned a Color (it did not panic).
Shaded == op = "lighting" /\ color # Panic

\* object_color x light.intensity x material.ambient
AmbientTerm == VScale(VMul(lit.object_color, lit.light.intensity), lit.material.ambient)

\* What lighting returns for the inputs of the state when the material has
\* no ambient coefficient.
ColorWithoutAmbient ==
    lighting([lit.material EXCEPT !.ambient = Zero], lit.point, lit.object_color,
             lit.light, lit.eyev, lit.normalv, lit.shadow_attenuation)

\* C9: with shadow_attenuation = 0 lighting returns exactly
\* object_color x light.intensity x material.ambient, and whatever the
\* shadow_attenuation the ambient coefficient contributes that same amount:
\* the result exceeds the result for the same material without ambient by it.
C9_AmbientNotAttenuated ==
    Shaded =>
        /\ lit.shadow_attenuation = Zero => color = AmbientTerm
        /\ VSub(color, ColorWithoutAmbient) = AmbientTerm

\* A fully occluded point facing the light: only the ambient term is left.
C9_Witness ==
    /\ Shaded
    /\ lit.shadow_attenuation = Zero
    /\ Gt(Dot(Norm(VSub(lit.light.position, lit.point)), lit.normalv), Zero)
    /\ lit.material.diffuse # Zero
    /\ color = AmbientTerm
    /\ color # black

\* The quantities the statement of lighting is written in.
LightDir == Norm(VSub(lit.light.position, lit.point))
NormalDotLight == Dot(lit.normalv, LightDir)
ReflectDotEye == Dot(Reflect(VNeg(LightDir), lit.normalv), lit.eyev)

\* object_color x light.intensity x material.diffuse x (normal . light_dir)
\* x shadow_attenuation, black when the surface faces away from the light.
DiffuseTerm ==
    IF Lt(NormalDotLight, Zero) THEN black
    ELSE VScale(VMul(lit.object_color, lit.light.intensity),
                Mul(Mul(lit.material.diffuse, NormalDotLight), lit.shadow_attenuation))

\* light.intensity x material.specular x (reflect_dir . eye)^shininess
\* x shadow_attenuation, black when the surface faces away from the light or
\* the reflection points away from the eye.
SpecularTerm ==
    IF Lt(NormalDotLight, Zero) \/ Le(ReflectDotEye, Zero) THEN black
    ELSE VScale(lit.light.intensity,
                Mul(Mul(lit.material.specular,
                        Powf(ReflectDotEye, lit.material.shininess)),
                    lit.shadow_attenuation))

\* C10: lighting returns ambient + diffuse + specular, unclamped; diffuse and
\* specular are black when normal . light_dir < 0; otherwise diffuse is
\* object_color x light.intensity x material.diffuse x (normal . light_dir) x
\* shadow_attenuation, and specular is black when reflect_dir . eye <= 0 and
\* light.intensity x material.specular x (reflect_dir . eye)^shininess x
\* shadow_attenuation when it is > 0, reflect_dir = reflect(-light_dir, normal).
C10_LightingFormula ==
    Shaded => color = VAdd(VAdd(AmbientTerm, DiffuseTerm), SpecularTerm)

\* A lit point with the eye on the reflection path: all three terms are
\* present and a component of the sum exceeds 1.
C10_Witness ==
    /\ Shaded
    /\ DiffuseTerm # black
    /\ SpecularTerm # black
    /\ Gt(color[1], One)
    /\ lit.light.position = V3(0, 6, -8)

-----------------------------------------------------------------------------
(* Material equality (src/src/scene/material.rs)                           *)

\* The number of Material instances alive at once.
MaxMaterials == 3

\* Material::default() and two materials that differ from it in a field.
MaterialValues ==
    {DefaultMaterial,
     Material(One, Rat(9, 10), Rat(9, 10), 200),
     Material(Rat(1, 10), Rat(9, 10), Rat(9, 10), 10)}

\* The instances alive: each address holds one value.
MaterialHeaps == [1..MaxMaterials -> MaterialValues]

\* Two references into one heap.
MaterialEqInputs ==
    {[self |-> MaterialRef(a, h[a]), other |-> MaterialRef(b, h[b])] :
        a \in 1..MaxMaterials, b \in 1..MaxMaterials, h \in MaterialHeaps}

InitMaterial ==
    /\ op = "none"
    /\ args \in MaterialEqInputs
    /\ result = Nil
    /\ SceneIdle /\ HitIdle /\ PrepIdle /\ LightIdle

\* self == other
MaterialEquals ==
    /\ op = "none"
    /\ op' = "eq"
    /\ result' = MaterialEq(args.self, args.other)
    /\ UNCHANGED <<args, sceneVars, hitVars, prepVars, lightVars>>

NextMaterial == MaterialEquals

SpecMaterial == InitMaterial /\ [][NextMaterial]_vars

\* C11: a material is equal to itself (two references to one instance are
\* equal), and two distinct instances are unequal, also when every field of
\* one has the value of the same field of the other.
C11_MaterialIdentity ==
    op = "eq" =>
        /\ args.self.addr = args.other.addr => result = TRUE
        /\ args.self.addr # args.other.addr => result = FALSE

\* Two distinct instances with identical fields compared unequal.
C11_Witness ==
    /\ op = "eq"
    /\ args.self.addr # args.other.addr
    /\ args.self.value = args.other.value
    /\ result = FALSE

-----------------------------------------------------------------------------
(* The unit sphere (src/src/geo/sphere.rs)                                 *)

\* The roots in the order t2, t1.
SphereRoots_Descending(a, b, discriminant) ==
    IF Lt(discriminant, Zero) THEN Nil
    ELSE <<Div(Add(Neg(b), Sqrt(discriminant)), Mul(F(2), a)),
           Div(Sub(Neg(b), Sqrt(discriminant)), Mul(F(2), a))>>

\* if discriminant < 0.0 { None } else { Some([t1, t2]) }; Nil is None
SphereRoots(a, b, discriminant) ==
    IF Lt(discriminant, Zero) THEN Nil
    ELSE <<Div(Sub(Neg(b), Sqrt(discriminant)), Mul(F(2), a)),
           Div(Add(Neg(b), Sqrt(discriminant)), Mul(F(2), a))>>

\* b * b - 4.0 * a * c
Discriminant(a, b, c) == Sub(Mul(b, b), Mul(Mul(F(4), a), c))

\* Sphere::intersect from a, b and c on
SphereSolve(a, b, c) == SphereRoots(a, b, Discriminant(a, b, c))

\* a = direction . direction, b = 2 direction . sphere_to_ray,
\* c = sphere_to_ray . sphere_to_ray - 1
SphereA(r) == Dot(r.direction, r.direction)
SphereB(r) == Mul(F(2), Dot(r.direction, VSub(r.origin, V3(0, 0, 0))))
SphereC(r) == Sub(Dot(VSub(r.origin, V3(0, 0, 0)), VSub(r.origin, V3(0, 0, 0))), One)

\* Sphere::intersect
SphereIntersect(r) == SphereSolve(SphereA(r), SphereB(r), SphereC(r))

-----------------------------------------------------------------------------
(* The primitives applied to rays and points of their own frame            *)

\* The coordinates of the ray origins: outside, on the faces of the cube,
\* inside.
OriginCoords == {F(-5), F(-1), Zero, One, F(2)}
\* The components of the ray directions.
SpeedCoords == {F(-1), Zero, One}
\* Directions that are nearly parallel to the plane: |y| below, at and above
\* the threshold of Plane::intersect.
Grazing ==
    {<<Zero, Rat(1, 200000000), One>>, <<Zero, Rat(-1, 200000000), One>>,
     <<Zero, PlaneEpsilon, One>>, <<Zero, Neg(PlaneEpsilon), One>>,
     <<Zero, Rat(1, 10000000), One>>}

LocalRays ==
    {Ray(<<ox, oy, oz>>, d) :
        ox \in OriginCoords, oy \in OriginCoords, oz \in OriginCoords,
        d \in {<<dx, dy, dz>> : dx \in SpeedCoords, dy \in SpeedCoords, dz \in SpeedCoords}
              \cup Grazing}

\* The coordinates of the points normals are asked at.
PointCoords == {F(-1), Rat(-1, 2), Zero, Rat(1, 2), One}
LocalPoints == {<<x, y, z>> : x \in PointCoords, y \in PointCoords, z \in PointCoords}

ShapeInputs == {[ray |-> r] : r \in LocalRays} \cup {[point |-> p] : p \in LocalPoints}

InitShapes ==
    /\ op = "none"
    /\ args \in ShapeInputs
    /\ result = Nil
    /\ SceneIdle /\ HitIdle /\ PrepIdle /\ LightIdle

\* Plane::default().intersect(&ray)
PlaneIntersectRay ==
    /\ op = "none"
    /\ "ray" \in DOMAIN args
    /\ op' = "Plane::intersect"
    /\ result' = PlaneIntersect(args.ray, 0)
    /\ UNCHANGED <<args, sceneVars, hitVars, prepVars, lightVars>>

\* Cube::default().intersect_local(&ray)
CubeIntersectLocalRay ==
    /\ op = "none"
    /\ "ray" \in DOMAIN args
    /\ op' = "Cube::intersect_local"
    /\ result' = CubeIntersectLocal(args.ray)
    /\ UNCHANGED <<args, sceneVars, hitVars, prepVars, lightVars>>

\* Cube::default().normal_at_local(&point); the unwrap() of an Err panics
CubeNormalAtLocalPoint ==
    /\ op = "none"
    /\ "point" \in DOMAIN args
    /\ op' = "Cube::normal_at_local"
    /\ \E n \in {CubeNormalAtLocal(args.point)} : result' = IF n = Nil THEN Panic ELSE n
    /\ UNCHANGED <<args, sceneVars, hitVars, prepVars, lightVars>>

\* The discriminant of the ray has a rational square root (or none), so that
\* f64::sqrt is modelled exactly (the nearly parallel directions are left to
\* the plane: the squares of their components are out of the model's range).
HasRationalRoots(r) ==
    /\ r.direction \notin Grazing
    /\ \E d \in {Discriminant(SphereA(r), SphereB(r), SphereC(r))} :
           Lt(d, Zero) \/ (IsSquare(d[1]) /\ IsSquare(d[2]))

\* Sphere::new().intersect(&ray)
SphereIntersectRay ==
    /\ op = "none"
    /\ "ray" \in DOMAIN args
    /\ HasRationalRoots(args.ray)
    /\ op' = "Sphere::intersect"
    /\ result' = SphereIntersect(args.ray)
    /\ UNCHANGED <<args, sceneVars, hitVars, prepVars, lightVars>>

NextShapes ==
    \/ PlaneIntersectRay
    \/ CubeIntersectLocalRay
    \/ CubeNormalAtLocalPoint
    \/ SphereIntersectRay

SpecShapes == InitShapes /\ [][NextShapes]_vars

\* C12: Plane.intersect returns no intersections whenever |direction.y| < 1e-8,
\* whatever the origin (a coplanar origin included); otherwise it returns
\* exactly one intersection, with t = -origin.y / direction.y, which may be
\* negative.
C12_PlaneIntersect ==
    op = "Plane::intersect" =>
        IF Lt(FAbs(args.ray.direction[2]), Rat(1, 100000000))
        THEN result = <<>>
        ELSE /\ Len(result) = 1
             /\ result[1].t = Div(Neg(args.ray.origin[2]), args.ray.direction[2])

\* A ray that leaves the plane behind: one intersection, with a negative t.
C12_Witness ==
    /\ op = "Plane::intersect"
    /\ Len(result) = 1
    /\ Lt(result[1].t, Zero)

\* A coplanar ray: no intersection.
C12_Coplanar ==
    /\ op = "Plane::intersect"
    /\ args.ray.origin[2] = Zero
    /\ args.ray.direction[2] = Zero
    /\ result = <<>>

\* The per-axis entry and exit parameters of the slab [-1, 1]:
\* (-1 - origin) / direction and (1 - origin) / direction, exchanged if the
\* first is greater than the second.
SlabPair(lo, hi) == IF Gt(lo, hi) THEN <<hi, lo>> ELSE <<lo, hi>>
Slab(r, axis) ==
    SlabPair(Div(Sub(F(-1), r.origin[axis]), r.direction[axis]),
             Div(Sub(One, r.origin[axis]), r.direction[axis]))
CubeTMin(r) == FMax(FMax(Slab(r, 1)[1], Slab(r, 2)[1]), Slab(r, 3)[1])
CubeTMax(r) == FMin(FMin(Slab(r, 1)[2], Slab(r, 2)[2]), Slab(r, 3)[2])

\* What C13 says of the result for the ray of the state.
CubeRootsAsStated ==
    /\ result = <<>> \/ (Len(result) = 2 /\ Le(result[1], result[2]))
    /\ result # <<>> => result = <<CubeTMin(args.ray), CubeTMax(args.ray)>>
    /\ result = <<>> <=> Gt(CubeTMin(args.ray), CubeTMax(args.ray))

\* C13 as stated: for any ray, Cube.intersect_local returns the empty list or
\* exactly [tmin, tmax] with tmin <= tmax, tmin the maximum of the per-axis
\* entry parameters and tmax the minimum of the per-axis exit parameters, and
\* the empty list exactly when tmin > tmax.
C13_CubeAnyRay ==
    op = "Cube::intersect_local" => CubeRootsAsStated

\* C13 (amended): the same, for any ray whose direction is not the zero
\* vector.
C13_CubeNonZeroDirection ==
    op = "Cube::intersect_local" /\ args.ray.direction # V3(0, 0, 0) => CubeRootsAsStated

\* A ray that only touches an edge of the cube: tmin = tmax, a hit.
C13_Witness ==
    /\ op = "Cube::intersect_local"
    /\ args.ray.direction # V3(0, 0, 0)
    /\ Len(result) = 2
    /\ result[1] = result[2]
    /\ IsFinite(result[1])

\* The axis of p that normal_at_local is to follow: its coordinate is largest
\* in absolute value, and strictly larger than those of the axes before it.
LeadingAxis(p) ==
    CHOOSE i \in 1..3 :
        /\ \A j \in 1..3 : Le(FAbs(p[j]), FAbs(p[i]))
        /\ \A j \in 1..(i - 1) : Lt(FAbs(p[j]), FAbs(p[i]))

\* The unit vector along the axis i, signed like p[i].
AxisVector(p, i) == [k \in 1..3 |-> IF k = i THEN F(Sgn(p[i][1])) ELSE Zero]

\* C14: Cube.normal_at_local returns the unit axis vector of the coordinate
\* with the largest absolute value, signed like that coordinate; of
\* coordinates that tie for the largest absolute value x wins over y and z,
\* and y over z.
C14_CubeNormal ==
    op = "Cube::normal_at_local" /\ result # Panic =>
        result = AxisVector(args.point, LeadingAxis(args.point))

\* y and z tie for the largest absolute value: the normal follows y.
C14_Witness ==
    /\ op = "Cube::normal_at_local"
    /\ args.point = <<Rat(1, 2), F(-1), F(-1)>>
    /\ result = V3(0, -1, 0)

\* The discriminant of the ray of the state, from the coefficients
\* a = D.D, b = 2 O.D, c = O.O - 1.
RayDiscriminant ==
    Sub(Mul(SphereB(args.ray), SphereB(args.ray)),
        Mul(F(4), Mul(SphereA(args.ray), SphereC(args.ray))))

\* t is a parameter at which the ray of the state is on the unit sphere.
OnSphere(t) == Dot(Position(args.ray, t), Position(args.ray, t)) = One

\* C15: for a ray with non-zero direction, no roots when the discriminant is
\* negative, one repeated root when it is zero, and otherwise two distinct
\* roots in ascending order; each root puts the ray on the sphere, and roots
\* may be negative.
C15_SphereRoots ==
    op = "Sphere::intersect" /\ args.ray.direction # V3(0, 0, 0) =>
        /\ Lt(RayDiscriminant, Zero) => result = Nil
        /\ RayDiscriminant = Zero =>
              result # Nil /\ result[1] = result[2] /\ OnSphere(result[1])
        /\ Gt(RayDiscriminant, Zero) =>
              /\ result # Nil /\ Lt(result[1], result[2])
              /\ OnSphere(result[1]) /\ OnSphere(result[2])

\* The sphere is behind the origin of the ray: two distinct negative roots.
C15_Witness ==
    /\ op = "Sphere::intersect"
    /\ args.ray.direction # V3(0, 0, 0)
    /\ result # Nil
    /\ Lt(result[1], result[2])
    /\ Lt(result[2], Zero)


-----------------------------------------------------------------------------
(* Bounds::from_points and Bounds::from_bounds                             *)

\* A mutation of FoldPoint: the maximum is never raised.
FoldPoint_MaxOfFirst(acc, p) ==
    <<<<FMin(acc[1][1], p[1]), FMin(acc[1][2], p[2]), FMin(acc[1][3], p[3])>>, acc[2]>>

\* The closure folded over the points: |(mn, mx), p| (mn.min(p), mx.max(p)),
\* componentwise
FoldPoint(acc, p) ==
    <<<<FMin(acc[1][1], p[1]), FMin(acc[1][2], p[2]), FMin(acc[1][3], p[3])>>,
      <<FMax(acc[2][1], p[1]), FMax(acc[2][2], p[2]), FMax(acc[2][3], p[3])>>>>

\* points.iter().fold(init, ...) from the k-th point on
RECURSIVE FoldPoints(_, _, _)
FoldPoints(points, k, acc) ==
    IF k > Len(points) THEN acc ELSE FoldPoints(points, k + 1, FoldPoint(acc, points[k]))

\* Some(Bounds { minimum, maximum }) of the folded pair
BoundsOfPair(pair) == Bounds(pair[1], pair[2])

\* Bounds::from_points; Nil is None. The fold starts from the first point
\* and visits every point, the first included.
from_points(points) ==
    IF Len(points) = 0 THEN Nil
    ELSE BoundsOfPair(FoldPoints(points, 1, <<points[1], points[1]>>))

\* A mutation of Corners: only the minimum corners are collected.
Corners_MinimumOnly(bounds) == [i \in 1..Len(bounds) |-> bounds[i].minimum]

\* bounds.iter().flat_map(|b| [min, max]).collect()
Corners(bounds) ==
    [i \in 1..(2 * Len(bounds)) |->
        IF i % 2 = 1 THEN bounds[(i + 1) \div 2].minimum ELSE bounds[i \div 2].maximum]

\* Option::unwrap_or
unwrap_or(option, default) == IF option = Nil THEN default ELSE option

\* Bounds::from_bounds
from_bounds(bounds) ==
    unwrap_or(from_points(Corners(bounds)), Bounds(V3(0, 0, 0), V3(0, 0, 0)))

-----------------------------------------------------------------------------
(* Specification SpecBounds: from_points, from_bounds and Bounded::test on *)
(* one argument                                                            *)

MaxPoints == 3
MaxBoxes == 3

\* The points bounds are built from.
BoundsPoints ==
    {<<x, y, z>> : x \in {F(-10), Zero}, y \in {Zero, F(5)},
                   z \in {Rat(1, 5), NEG_INFINITY, INFINITY}}

\* The box of the test of an axis going to infinity (bounded.rs:331-343)
TallBounds == Bounds(<<F(-1), NEG_INFINITY, F(-1)>>, <<One, INFINITY, One>>)

\* The boxes that are aggregated; the last has its corners the wrong way round
Boxes ==
    {DefaultBounds, MockBounds, PlaneBounds, TallBounds,
     Bounds(V3(0, 0, 0), V3(1, 1, 1)), Bounds(V3(0, 1, 2), V3(0, 1, 2)),
     Bounds(V3(1, 1, 1), V3(0, 0, 0))}

\* The boxes a Bounded stores in the tests of Bounded::test
StoredBoxes == {DefaultBounds, MockBounds, PlaneBounds, TallBounds}

SeqsUpTo(S, n) == UNION {[1..k -> S] : k \in 0..n}

TestCoords == {F(-5), Zero, Rat(19, 10), F(3), F(4), Rat(41, 10), F(5)}

TestRays ==
    {Ray(<<ox, oy, oz>>, <<dx, dy, dz>>) :
        ox \in TestCoords, oy \in TestCoords, oz \in TestCoords,
        dx \in SpeedCoords, dy \in SpeedCoords, dz \in SpeedCoords}

BoundsInputs ==
    {[points |-> ps] : ps \in SeqsUpTo(BoundsPoints, MaxPoints)}
    \cup {[boxes |-> bs] : bs \in SeqsUpTo(Boxes, MaxBoxes)}
    \cup {[bounds |-> b, ray |-> r] : b \in StoredBoxes, r \in TestRays}

InitBounds ==
    /\ op = "none"
    /\ args \in BoundsInputs
    /\ result = Nil
    /\ SceneIdle /\ HitIdle /\ PrepIdle /\ LightIdle

\* Bounds::from_points(&points)
FromPoints ==
    /\ op = "none"
    /\ "points" \in DOMAIN args
    /\ op' = "Bounds::from_points"
    /\ result' = from_points(args.points)
    /\ UNCHANGED <<args, sceneVars, hitVars, prepVars, lightVars>>

\* Bounds::from_bounds(&boxes)
FromBounds ==
    /\ op = "none"
    /\ "boxes" \in DOMAIN args
    /\ op' = "Bounds::from_bounds"
    /\ result' = from_bounds(args.boxes)
    /\ UNCHANGED <<args, sceneVars, hitVars, prepVars, lightVars>>

\* Bounded::new(MockObject { bounds, .. }).test(&ray)
BoundedTest ==
    /\ op = "none"
    /\ "bounds" \in DOMAIN args
    /\ op' = "Bounded::test"
    /\ result' = test(args.bounds, args.ray)
    /\ UNCHANGED <<args, sceneVars, hitVars, prepVars, lightVars>>

NextBounds ==
    \/ FromPoints
    \/ FromBounds
    \/ BoundedTest

SpecBounds == InitBounds /\ [][NextBounds]_vars

-----------------------------------------------------------------------------
(* Claims about Bounds                                                     *)

\* The coordinates of the points on axis i
CoordsOf(points, i) == {points[k][i] : k \in 1..Len(points)}

\* The least and the greatest of a non-empty set of numbers
Least(S) == CHOOSE m \in S : \A c \in S : Le(m, c)
Greatest(S) == CHOOSE m \in S : \A c \in S : Le(c, m)

\* p is inside or on the boundary of the box b
Contains(b, p) == \A i \in 1..3 : Le(b.minimum[i], p[i]) /\ Le(p[i], b.maximum[i])

\* The rearrangements of a sequence
Rearrangements(s) ==
    LET n == Len(s)
    IN  {[i \in 1..n |-> s[f[i]]] :
            f \in {g \in [1..n -> 1..n] : \A a, b \in 1..n : g[a] = g[b] => a = b}}

\* C16: Bounds::from_points returns None for an empty slice; for a non-empty
\* slice it returns, on every axis, the least and the greatest coordinate of
\* the points, so that minimum <= maximum, every point is inside the result,
\* and every rearrangement of the points gives the same result.
C16_FromPoints ==
    op = "Bounds::from_points" =>
        IF Len(args.points) = 0 THEN result = Nil
        ELSE /\ result # Nil
             /\ \A i \in 1..3 :
                    /\ result.minimum[i] = Least(CoordsOf(args.points, i))
                    /\ result.maximum[i] = Greatest(CoordsOf(args.points, i))
                    /\ Le(result.minimum[i], result.maximum[i])
             /\ \A k \in 1..Len(args.points) : Contains(result, args.points[k])
             /\ \A q \in Rearrangements(args.points) : from_points(q) = result

\* Three points none of which is a corner of the result, which is unbounded
\* below on z.
C16_Witness ==
    /\ op = "Bounds::from_points"
    /\ Len(args.points) >= 3
    /\ result # Nil
    /\ \A k \in 1..Len(args.points) :
           result.minimum # args.points[k] /\ result.maximum # args.points[k]
    /\ result.minimum[3] = NEG_INFINITY
    /\ IsFinite(result.maximum[3])

\* An empty slice gives None.
C16_Empty == op = "Bounds::from_points" /\ Len(args.points) = 0 /\ result = Nil

\* The corners of the boxes, as a set
CornerSet(boxes) == UNION {{boxes[k].minimum, boxes[k].maximum} : k \in 1..Len(boxes)}

\* minimum <= maximum on every axis
WellFormed(b) == \A i \in 1..3 : Le(b.minimum[i], b.maximum[i])

\* C17: Bounds::from_bounds of no box is the box with both corners at the
\* origin; of one or more boxes it is, on every axis, the least and the
\* greatest coordinate of all their corners, so every input box is inside it;
\* of a single box with minimum <= maximum (the unbounded default included)
\* it is that box.
C17_FromBounds ==
    op = "Bounds::from_bounds" =>
        IF Len(args.boxes) = 0 THEN result = Bounds(V3(0, 0, 0), V3(0, 0, 0))
        ELSE /\ \A i \in 1..3 :
                    /\ result.minimum[i] = Least({c[i] : c \in CornerSet(args.boxes)})
                    /\ result.maximum[i] = Greatest({c[i] : c \in CornerSet(args.boxes)})
             /\ \A c \in CornerSet(args.boxes) : Contains(result, c)
             /\ (Len(args.boxes) = 1 /\ WellFormed(args.boxes[1])) => result = args.boxes[1]

\* Two bounded boxes neither of which is the result, and the default box on
\* its own.
C17_Witness ==
    /\ op = "Bounds::from_bounds"
    /\ Len(args.boxes) = 2
    /\ \A k \in 1..2 : WellFormed(args.boxes[k]) /\ result # args.boxes[k]
    /\ \A i \in 1..3 : IsFinite(result.minimum[i]) /\ IsFinite(result.maximum[i])

C17_SingleDefault ==
    op = "Bounds::from_bounds" /\ args.boxes = <<DefaultBounds>> /\ result = DefaultBounds

\* A single box with its corners the wrong way round comes back reordered.
C17_SingleInverted ==
    /\ op = "Bounds::from_bounds"
    /\ Len(args.boxes) = 1
    /\ ~WellFormed(args.boxes[1])
    /\ result # args.boxes[1]

-----------------------------------------------------------------------------
(* Claims about Bounded::test                                              *)

\* The finite parameters at which the ray crosses the plane of a face of the
\* box, and 0
Crossings(b, r) ==
    {Zero} \cup
    {t \in {Div(Sub(c[i], r.origin[i]), r.direction[i]) :
                c \in {b.minimum, b.maximum}, i \in 1..3} : IsFinite(t)}

\* Some parameter t puts ray.position(t) inside or on the boundary of the
\* box. The parameters that do so form an interval which, when it is not
\* empty, contains a crossing or every number.
EntersBox(b, r) == \E t \in Crossings(b, r) : Contains(b, Position(r, t))

\* C18: for a stored box with minimum <= maximum on every axis, coordinates
\* possibly infinite, Bounded.test(ray) is true exactly when some parameter t
\* puts ray.position(t) inside or on the boundary of the box.
C18_TestExact ==
    (op = "Bounded::test" /\ WellFormed(args.bounds)) =>
        (result = EntersBox(args.bounds, args.ray))

\* Bounded.test never rejects a ray that moves and enters the box.
C18_NeverRejectsAHit ==
    (/\ op = "Bounded::test"
     /\ args.ray.direction # <<Zero, Zero, Zero>>
     /\ EntersBox(args.bounds, args.ray)) => result

\* For a box with finite corners and a ray that moves, Bounded.test is exact.
C18_ExactOnFiniteBoxes ==
    (/\ op = "Bounded::test"
     /\ \A i \in 1..3 : IsFinite(args.bounds.minimum[i]) /\ IsFinite(args.bounds.maximum[i])
     /\ args.ray.direction # <<Zero, Zero, Zero>>) =>
        (result = EntersBox(args.bounds, args.ray))

\* A ray that moves passes the test of an unbounded box it never enters.
C18_FalsePositive ==
    /\ op = "Bounded::test"
    /\ args.bounds = TallBounds
    /\ args.ray = Ray(<<F(5), Zero, Zero>>, <<Zero, One, Zero>>)
    /\ result
    /\ ~EntersBox(args.bounds, args.ray)

\* The ray of the test of an edge (bounded.rs:298) passes.
C18_Edge ==
    /\ op = "Bounded::test"
    /\ args.bounds = MockBounds
    /\ args.ray = Ray(<<F(5), F(4), F(4)>>, <<F(-1), Zero, Zero>>)
    /\ result

-----------------------------------------------------------------------------
(* Claims about what a Bounded stores                                      *)

\* One step of the scene, as far as the bounds stored in the wrappers are
\* concerned.
C19_Step ==
    /\ \A k \in 1..Len(wrappers) : wrappers'[k] = wrappers[k]
    /\ (op' = "Bounded::new" /\ ~panicked') =>
           /\ Len(wrappers') = Len(wrappers) + 1
           /\ trace' = <<Call("bounds", Len(wrappers), Nil)>>
           /\ wrappers'[Len(wrappers')] = Bounded(ObjectBounds(scene, top))
    /\ (op' = "bounds" /\ IsBounded(top)) =>
           /\ bounds_out' = wrappers[top].bounds
           /\ trace' = <<Call("bounds", top, Nil)>>
    /\ (op' = "intersect") => \A i \in 1..Len(trace') : trace'[i].fn = "intersect"

\* C19: Bounded::new asks the child for its bounds exactly once and stores
\* the answer; every later bounds() on the wrapper returns the stored value
\* without asking the child, and neither intersect (with its test) nor bounds
\* changes the stored value or asks any object for its bounds.
C19_BoundsReadOnce == [][C19_Step]_vars

\* bounds() on a Bounded around a Bounded, after a ray was cast at it:
\* it returns what was stored when the inner one was built.
C19_Witness ==
    /\ op = "bounds"
    /\ Len(wrappers) = 2
    /\ IsBounded(1) /\ IsBounded(2)
    /\ bounds_out = wrappers[2].bounds
    /\ bounds_out = ObjectBounds(scene, 0)
    /\ trace = <<Call("bounds", 2, Nil)>>

-----------------------------------------------------------------------------
(* Claims about the material of a wrapper                                  *)

\* C20: material() of a Bounded or of a Transformed is the same Material
\* instance as its child's material(): with the equality of Material, which
\* compares addresses, wrapper.material() == child.material() at every depth
\* of the stack of wrappers, down to the material field of the primitive.
C20_MaterialOfChild ==
    op = "material" =>
        /\ \A k \in 1..top : MaterialEq(ObjectMaterial(scene, k), ObjectMaterial(scene, k - 1))
        /\ top >= 1 => MaterialEq(material_out, ObjectMaterial(scene, top - 1))
        /\ MaterialEq(material_out, ShapeMaterial(scene))

\* material() asked of a Transformed around a Bounded.
C20_Witness ==
    /\ op = "material"
    /\ top = 2
    /\ IsBounded(1) /\ IsTransformed(2)
    /\ MaterialEq(material_out, ObjectMaterial(scene, 1))
    /\ material_out.value = DefaultMaterial

-----------------------------------------------------------------------------
(* Surfaces, and color_at and normal_at of Transformed                     *)
(* (src/src/scene/material.rs, src/src/scene/object/transformed.rs)        *)

\* enum Surface { Color(Color), Pattern(Box<dyn Pattern>) }; a pattern is
\* known by its transform
SurfaceColor(c) == [kind |-> "Color", color |-> c]
SurfacePattern(m) == [kind |-> "Pattern", transform |-> m]

\* MockPattern::at_local: the color whose components are the coordinates of
\* the pattern point
MockPatternAtLocal(pattern_point) == pattern_point

\* Pattern::at: the point is taken into the pattern's frame by the inverse of
\* the pattern's transform
PatternAt(pattern, object_point) ==
    MockPatternAtLocal(MulPoint(Inverse(pattern.transform), object_point))

\* Surface::color_at, which material::color_at(&surface, &point) evaluates
SurfaceColorAt(surface, point) ==
    IF surface.kind = "Color" THEN surface.color ELSE PatternAt(surface, point)

\* A scene object whose primitive has a material with the given surface
Surfaced(sh, ws, surface) == [shape |-> sh, wrappers |-> ws, surface |-> surface]

\* self.material().surface: the surface of the primitive's material, which
\* every wrapper's material() hands on
MaterialSurface(obj, material) == obj.surface

\* Transformed::color_at mapping the point by the transform, not its inverse.
TransformedColorAt_Forward(obj, k, point) ==
    SurfaceColorAt(MaterialSurface(obj, ObjectMaterial(obj, k)),
                   MulPoint(obj.wrappers[k].transform, point))

\* Transformed::color_at: object_point = self.transform.inverse() * point,
\* then the surface of self.material() at object_point
TransformedColorAt(obj, k, point) ==
    SurfaceColorAt(MaterialSurface(obj, ObjectMaterial(obj, k)),
                   MulPoint(Inverse(obj.wrappers[k].transform), point))

\* What an invocation of normal_at yields: the normal returned, or Panic, and
\* the invocations of Object methods it made, in order.
NormalReturned(normal, calls) == [normal |-> normal, calls |-> calls]

\* Result::unwrap
Unwrapped(res) == IF res = Nil THEN Panic ELSE res

\* MockObject::normal_at: the normal of the unit sphere around the origin
MockNormalAt(local_point) == Unwrapped(Norm(VSub(local_point, V3(0, 0, 0))))

\* The end of Transformed::normal_at, given what the child returned:
\* world_normal = self.transform.inverse().transpose() * local_normal, and
\* NormalizedVec3d::try_from(world_normal).unwrap(). For a matrix of the
\* family above the transposed inverse acts on a vector by its diagonal.
TransformedNormalOf(m, child) ==
    IF child.normal = Panic THEN child
    ELSE NormalReturned(Unwrapped(Norm(MulVec(Inverse(m), child.normal))), child.calls)

RECURSIVE ObjectNormalAt(_, _, _)

\* Transformed::normal_at handing its own point on to the child.
TransformedNormalAt_SamePoint(obj, k, object_point) ==
    TransformedNormalOf(obj.wrappers[k].transform, ObjectNormalAt(obj, k - 1, object_point))

\* Transformed::normal_at: local_point = self.transform.inverse() * object_point
TransformedNormalAt(obj, k, object_point) ==
    TransformedNormalOf(obj.wrappers[k].transform,
        ObjectNormalAt(obj, k - 1, MulPoint(Inverse(obj.wrappers[k].transform), object_point)))

\* The invocation `call` of normal_at and what it yielded.
NormalInvoked(call, res) == NormalReturned(res.normal, <<call>> \o res.calls)

\* object.normal_at(point) for the object at depth k of a stack of
\* Transformed wrappers around a MockObject
ObjectNormalAt(obj, k, point) ==
    NormalInvoked(Call("normal_at", k, point),
                  IF k = 0 THEN NormalReturned(MockNormalAt(point), <<>>)
                  ELSE TransformedNormalAt(obj, k, point))

-----------------------------------------------------------------------------
(* Specification SpecTransformed: color_at, normal_at and intersect of a   *)
(* stack of Transformed wrappers around a MockObject, at one point         *)

MaxWrappers == 2

\* The transforms of the wrappers, and of the patterns
StackTransforms == Transforms \cup {translation(0, 1, 0)}
PatternTransforms == {identity, Matrix(V3(1, 1, 1), <<Rat(1, 2), One, Rat(3, 2)>>)}

Surfaces == {SurfaceColor(white)} \cup {SurfacePattern(m) : m \in PatternTransforms}

\* The stacks of wrappers, innermost first
Stacks ==
    UNION {[1..n -> {Transformed(m) : m \in StackTransforms}] : n \in 1..MaxWrappers}

WorldPoints ==
    {V3(2, 3, 4), <<Rat(5, 2), F(3), Rat(7, 2)>>, V3(0, 0, 2), V3(5, 3, 4), V3(10, 6, 8),
     V3(5, 0, 0), V3(0, 0, 0), V3(6, 0, 0), V3(12, 0, 0)}

TransformedInputs ==
    {[object |-> Surfaced("mock", ws, sf), point |-> pt] :
        ws \in Stacks, sf \in Surfaces, pt \in WorldPoints}

InitTransformed ==
    /\ op = "none"
    /\ args \in TransformedInputs
    /\ result = Nil
    /\ SceneIdle /\ HitIdle /\ PrepIdle /\ LightIdle

\* object.color_at(&point) on the outermost wrapper
ColorAtPoint ==
    /\ op = "none"
    /\ op' = "color_at"
    /\ result' = TransformedColorAt(args.object, Len(args.object.wrappers), args.point)
    /\ UNCHANGED <<args, sceneVars, hitVars, prepVars, lightVars>>

\* The point a stack of inverse transforms takes a point to, outermost first
RECURSIVE InnermostPoint(_, _, _)
InnermostPoint(ws, k, pt) ==
    IF k = 0 THEN pt ELSE InnermostPoint(ws, k - 1, MulPoint(Inverse(ws[k].transform), pt))

\* object.normal_at(&point) on the outermost wrapper, for the points whose
\* image in the frame of the MockObject has a rational distance from the
\* origin, so that f64::sqrt is modelled exactly
NormalAtPoint ==
    /\ op = "none"
    /\ HasRationalLength(InnermostPoint(args.object.wrappers, Len(args.object.wrappers), args.point))
    /\ op' = "normal_at"
    /\ result' = ObjectNormalAt(args.object, Len(args.object.wrappers), args.point)
    /\ UNCHANGED <<args, sceneVars, hitVars, prepVars, lightVars>>

\* object.intersect(&ray) on the outermost wrapper, for the ray from the
\* point along z
IntersectFromPoint ==
    /\ op = "none"
    /\ op' = "intersect"
    /\ result' = Intersect(args.object, Len(args.object.wrappers), Ray(args.point, V3(0, 0, 1)))
    /\ UNCHANGED <<args, sceneVars, hitVars, prepVars, lightVars>>

NextTransformed ==
    \/ ColorAtPoint
    \/ NormalAtPoint
    \/ IntersectFromPoint

SpecTransformed == InitTransformed /\ [][NextTransformed]_vars

-----------------------------------------------------------------------------
(* Claims about color_at                                                   *)

\* The outermost wrapper's transform, and the coordinate i of the point
\* (p - translation) / scale that its inverse takes p to
OuterTransform == args.object.wrappers[Len(args.object.wrappers)].transform
Undone(m, p, i) == Div(Sub(p[i], m.col[i]), m.diag[i])
ObjectPoint == [i \in 1..3 |-> Undone(OuterTransform, args.point, i)]

\* C21: Transformed.color_at(point) samples the surface of the child's
\* material at inverse(transform) x point; a flat color is returned as it is,
\* and a pattern is sampled at that point mapped, after the object's inverse
\* transform, by the inverse of the pattern's own transform.
C21_ColorAt ==
    op = "color_at" =>
        IF args.object.surface.kind = "Color" THEN result = args.object.surface.color
        ELSE result = MockPatternAtLocal(
                          [i \in 1..3 |-> Undone(args.object.surface.transform, ObjectPoint, i)])

\* An object scaled by 2 with a pattern translated by (0.5, 1, 1.5) maps
\* (2.5, 3, 3.5) to the pattern point (0.75, 0.5, 0.25).
C21_Witness ==
    /\ op = "color_at"
    /\ args.object.wrappers = <<Transformed(scaling(2, 2, 2))>>
    /\ args.object.surface = SurfacePattern(Matrix(V3(1, 1, 1), <<Rat(1, 2), One, Rat(3, 2)>>))
    /\ args.point = <<Rat(5, 2), F(3), Rat(7, 2)>>
    /\ result = <<Rat(3, 4), Rat(1, 2), Rat(1, 4)>>

-----------------------------------------------------------------------------
(* Specification SpecRender: several rays are evaluated against one scene, *)
(* their steps interleaved in any order                                    *)

MaxTasks == 2

\* The scenes that are rendered: a primitive and the wrappers built around
\* it, each Bounded holding the bounds of its child
RenderScenes ==
    {Object("cube", <<>>),
     Object("plane", <<Transformed(translation(5, 0, 0))>>),
     Object("mock", <<Bounded(MockBounds)>>),
     Object("cube", <<Bounded(CubeBounds), Transformed(scaling(2, 2, 2))>>),
     Object("mock", <<Transformed(translation(5, 0, 0)), Transformed(scaling(2, 2, 2))>>)}

\* What is evaluated for one ray: the ray cast at the scene, and the
\* arguments of prepare_computations and of lighting
RenderJob(r, p, l) == [ray |-> r, prep |-> p, light |-> l]

RenderJobs ==
    {RenderJob(Ray(V3(0, 0, -5), V3(0, 0, 1)),
               PrepInput(Ray(V3(0, 0, -5), V3(0, 0, 1)), F(4), Sphere("s1", identity)),
               LightInput(Material(Rat(1, 10), Rat(9, 10), Rat(9, 10), 2), V3(0, 0, 0), white,
                          PointLight(V3(0, 0, -10), white), V3(0, 0, -1), V3(0, 0, -1), One)),
     RenderJob(Ray(V3(5, 0, -5), V3(0, 0, 1)),
               PrepInput(Ray(V3(0, 0, 0), V3(0, 0, 1)), One, Sphere("s1", identity)),
               LightInput(Material(One, Zero, Rat(9, 10), 1), V3(0, 6, 0),
                          <<One, Rat(1, 2), Zero>>, PointLight(V3(0, 6, -8), white),
                          V3(0, 0, -1), V3(0, 0, -1), Rat(1, 2)))}

Tasks == 1..MaxTasks

\* The locals of one evaluation: where it stands, and the values the
\* operations returned to it
TaskState(pc, list, h, c, col) == [pc |-> pc, xs |-> list, hit |-> h, comps |-> c, color |-> col]

\* All evaluations keeping what the operations return in one shared place.
Slot_Shared(t) == 1

\* The place a value returned to the evaluation t is kept: a local of t
Slot(t) == t

InitRender ==
    /\ op = "none"
    /\ \E obj \in RenderScenes : shape = obj.shape /\ wrappers = obj.wrappers
    /\ panicked = FALSE
    /\ ray = Nil /\ xs = Nil /\ trace = <<>> /\ bounds_out = Nil /\ material_out = Nil
    /\ args \in [Tasks -> RenderJobs]
    /\ result = [t \in Tasks |-> TaskState("intersect", Nil, Nil, Nil, Nil)]
    /\ HitIdle /\ PrepIdle /\ LightIdle

\* let xs = object.intersect(&ray)
TaskIntersect(t) ==
    /\ result[Slot(t)].pc = "intersect"
    /\ op' = "intersect"
    /\ result' = [result EXCEPT ![Slot(t)] =
                     TaskState("hit", Intersect(scene, top, args[t].ray).xs, Nil, Nil, Nil)]
    /\ UNCHANGED <<args, sceneVars, hitVars, prepVars, lightVars>>

\* let h = hit(&xs)
TaskHit(t) ==
    /\ result[Slot(t)].pc = "hit"
    /\ op' = "hit"
    /\ result' = [result EXCEPT ![Slot(t)].pc = "prepare",
                                ![Slot(t)].hit = hit(result[Slot(t)].xs)]
    /\ UNCHANGED <<args, sceneVars, hitVars, prepVars, lightVars>>

\* let comps = i.prepare_computations(&ray)
TaskPrepare(t) ==
    /\ result[Slot(t)].pc = "prepare"
    /\ op' = "prepare_computations"
    /\ result' = [result EXCEPT ![Slot(t)].pc = "lighting",
                                ![Slot(t)].comps =
                                    prepare_computations(args[t].prep.i, args[t].prep.ray)]
    /\ UNCHANGED <<args, sceneVars, hitVars, prepVars, lightVars>>

\* The call of lighting with the arguments `in`
LightingOf(in) ==
    lighting(in.material, in.point, in.object_color, in.light, in.eyev, in.normalv,
             in.shadow_attenuation)

\* let color = lighting(..)
TaskLighting(t) ==
    /\ result[Slot(t)].pc = "lighting"
    /\ op' = "lighting"
    /\ result' = [result EXCEPT ![Slot(t)].pc = "done",
                                ![Slot(t)].color = LightingOf(args[t].light)]
    /\ UNCHANGED <<args, sceneVars, hitVars, prepVars, lightVars>>

NextRender ==
    \/ \E t \in Tasks : TaskIntersect(t)
    \/ \E t \in Tasks : TaskHit(t)
    \/ \E t \in Tasks : TaskPrepare(t)
    \/ \E t \in Tasks : TaskLighting(t)

SpecRender == InitRender /\ [][NextRender]_vars

-----------------------------------------------------------------------------
(* Claims about evaluating rays in any interleaving                        *)

\* What evaluating the job alone, one operation after the other, yields by
\* the time the evaluation stands at pc
AsEvaluatedAlone(obj, job, state) ==
    /\ state.pc \in {"hit", "prepare", "lighting", "done"} =>
           state.xs = Intersect(obj, Len(obj.wrappers), job.ray).xs
    /\ state.pc \in {"prepare", "lighting", "done"} =>
           state.hit = hit(Intersect(obj, Len(obj.wrappers), job.ray).xs)
    /\ state.pc \in {"lighting", "done"} =>
           state.comps = prepare_computations(job.prep.i, job.prep.ray)
    /\ state.pc = "done" => state.color = LightingOf(job.light)

C22_Step ==
    /\ shape' = shape /\ wrappers' = wrappers /\ args' = args
    /\ \A t \in Tasks : AsEvaluatedAlone(scene, args[t], result'[t])

-----------------------------------------------------------------------------
(* Claims about a Transformed inside a Transformed                         *)

\* The scene of the test of a twice transformed shape (transformed.rs:106-127)
\* and its ray
TwiceTransformed ==
    /\ shape = "mock"
    /\ wrappers = <<Transformed(translation(5, 0, 0)), Transformed(scaling(2, 2, 2))>>
    /\ ray = Ray(V3(0, 0, 0), V3(0, 0, 1))

\* C23: with an outer Transformed of scaling(2,2,2) around an inner
\* Transformed of translation(5,0,0), intersecting the world ray from
\* (0,0,0) along (0,0,1) delivers to the innermost child the ray from
\* (-10,0,0) along (0,0,0.5).
C23_InnermostRay ==
    (op = "intersect" /\ TwiceTransformed) =>
        /\ Len(trace) = 3
        /\ trace[3] = Call("intersect", 0, Ray(V3(-10, 0, 0), <<Zero, Zero, Rat(1, 2)>>))

\* The ray that is delivered starts at (-5,0,0).
C23_Delivered ==
    /\ op = "intersect" /\ TwiceTransformed
    /\ trace[2] = Call("intersect", 1, Ray(V3(0, 0, 0), <<Zero, Zero, Rat(1, 2)>>))
    /\ trace[3] = Call("intersect", 0, Ray(V3(-5, 0, 0), <<Zero, Zero, Rat(1, 2)>>))

\* The object asked, its outermost depth, and the point handed to the
\* innermost child by normal_at and by intersect
Asked == args.object
Outermost == Len(args.object.wrappers)
LastCall(calls) == calls[Len(calls)]
NormalPoint == LastCall(ObjectNormalAt(Asked, Outermost, args.point).calls).arg
IntersectPoint == LastCall(Intersect(Asked, Outermost, Ray(args.point, V3(0, 0, 1))).calls).arg.origin

\* The points at which normal_at is modelled exactly
ExactNormal == HasRationalLength(InnermostPoint(Asked.wrappers, Outermost, args.point))

\* C24: for a Transformed around another Transformed, color_at samples the
\* surface at the world point mapped through the inverse transform of every
\* wrapper, outer then inner: at the point that normal_at hands to the
\* innermost child and at which the ray of intersect starts for it.
C24_ColorAtChain ==
    (op = "color_at" /\ Outermost = 2 /\ ExactNormal) =>
        /\ NormalPoint = IntersectPoint
        /\ result = SurfaceColorAt(Asked.surface, NormalPoint)

\* normal_at and intersect hand the same point to the innermost child: the
\* world point mapped by the inverse of every wrapper, outermost first.
C24_NormalAndIntersectAgree ==
    (op = "color_at" /\ ExactNormal) =>
        /\ NormalPoint = IntersectPoint
        /\ NormalPoint = InnermostPoint(Asked.wrappers, Outermost, args.point)

\* color_at of the outer wrapper samples at the point mapped by the outer
\* inverse only.
C24_ColorAtOuterOnly ==
    op = "color_at" =>
        result = SurfaceColorAt(Asked.surface,
                                InnermostPoint(<<Asked.wrappers[Outermost]>>, 1, args.point))

\* scaling(2,2,2) around translation(5,0,0) with an identity pattern: (10,6,8)
\* is sampled at (5,3,4), and normal_at hands (0,3,4) to the child.
C24_Diverges ==
    /\ op = "color_at"
    /\ Asked.wrappers = <<Transformed(translation(5, 0, 0)), Transformed(scaling(2, 2, 2))>>
    /\ Asked.surface = SurfacePattern(identity)
    /\ args.point = V3(10, 6, 8)
    /\ result = V3(5, 3, 4)
    /\ NormalPoint = V3(0, 3, 4)

-----------------------------------------------------------------------------
(* Specification SpecRelocation: materials are moved in memory and         *)
(* compared                                                                *)

MaxAddresses == 4

Materials == 1..MaxMaterials
Addresses == 1..MaxAddresses

\* A mutation of FreeAddresses: a material may be moved onto another.
FreeAddresses_Any(at) == Addresses

\* The addresses no material lives at
FreeAddresses(at) == Addresses \ {at[i] : i \in Materials}

\* &material for the material i: every material is a Material::default()
RefTo(at, i) == MaterialRef(at[i], DefaultMaterial)

\* The materials are created one after the other; `created` keeps the
\* address each one was created at.
InitRelocation ==
    /\ op = "none"
    /\ args = [at |-> [i \in Materials |-> i], created |-> [i \in Materials |-> i]]
    /\ result = Nil
    /\ SceneIdle /\ HitIdle /\ PrepIdle /\ LightIdle

\* The material i is moved (into a struct, a Box, a Vec that grows): its
\* value now lives at the free address b.
Relocate(i, b) ==
    /\ b \in FreeAddresses(args.at)
    /\ op' = "move"
    /\ args' = [args EXCEPT !.at[i] = b]
    /\ result' = Nil
    /\ UNCHANGED <<sceneVars, hitVars, prepVars, lightVars>>

\* &material_i == &material_j
CompareMaterials(i, j) ==
    /\ op' = "eq"
    /\ result' = [self |-> i, other |-> j,
                  eq |-> MaterialEq(RefTo(args.at, i), RefTo(args.at, j))]
    /\ UNCHANGED <<args, sceneVars, hitVars, prepVars, lightVars>>

NextRelocation ==
    \/ \E i \in Materials, b \in Addresses : Relocate(i, b)
    \/ \E i, j \in Materials : CompareMaterials(i, j)

SpecRelocation == InitRelocation /\ [][NextRelocation]_vars

-----------------------------------------------------------------------------
(* Claims about material equality and relocation                           *)

\* What the equality of two materials is decided by
EqKey(ref) == ref.addr

\* Equality compares the key, and only the key.
KeyDecides ==
    \A i, j \in Materials :
        MaterialEq(RefTo(args.at, i), RefTo(args.at, j))
            <=> (EqKey(RefTo(args.at, i)) = EqKey(RefTo(args.at, j)))

C25_StableStep ==
    /\ KeyDecides
    /\ \A i \in Materials : EqKey(RefTo(args.at, i))' = EqKey(RefTo(args.at, i))
    /\ op' = "eq" => (result'.eq <=> (result'.self = result'.other))

-----------------------------------------------------------------------------
(* Claims about axis-parallel rays and the cube                            *)

\* The axes the ray is parallel to, and those it moves along
ParallelAxes(r) == {i \in 1..3 : r.direction[i] = Zero}
MovingAxes(r) == {i \in 1..3 : r.direction[i] # Zero}

\* The origin is within the slab [-1, 1] of the axis
WithinSlab(r, i) == Le(F(-1), r.origin[i]) /\ Le(r.origin[i], One)

\* The parameters at which a moving ray enters and leaves the slab of the axis
SlabEntry(r, i) ==
    Div(Sub(IF Gt(r.direction[i], Zero) THEN F(-1) ELSE One, r.origin[i]), r.direction[i])
SlabExit(r, i) ==
    Div(Sub(IF Gt(r.direction[i], Zero) THEN One ELSE F(-1), r.origin[i]), r.direction[i])

\* intersect_local reports a hit exactly when the origin is within the slab
\* of every parallel axis and the intervals of the other axes overlap.
HitIffWithinAndOverlap(r) ==
    (result # <<>>) <=>
        /\ \A i \in ParallelAxes(r) : WithinSlab(r, i)
        /\ \A i, j \in MovingAxes(r) : Le(SlabEntry(r, i), SlabExit(r, j))

ParallelInterval(o) ==
    IF Gt(o, One) THEN <<NEG_INFINITY, NEG_INFINITY>>
    ELSE IF Lt(o, F(-1)) THEN <<INFINITY, INFINITY>>
    ELSE IF o = One THEN <<NEG_INFINITY, NAN>>
    ELSE IF o = F(-1) THEN <<NAN, INFINITY>>
    ELSE <<NEG_INFINITY, INFINITY>>

C26_StillOutside ==
    /\ op = "Cube::intersect_local"
    /\ args.ray = Ray(V3(2, 0, 0), V3(0, 0, 0))
    /\ result = <<NEG_INFINITY, NEG_INFINITY>>

-----------------------------------------------------------------------------
(* lighting and prepare_computations applied to degenerate vectors         *)

\* One material, eye and normal; every light and point of the lighting inputs
DegenerateLightInputs ==
    {in \in LightInputs :
        /\ in.material = Material(Rat(1, 10), Rat(9, 10), Rat(9, 10), 0)
        /\ in.object_color = white
        /\ in.eyev = V3(0, 0, -1)
        /\ in.normalv = V3(0, 0, -1)
        /\ in.shadow_attenuation = One}

\* The unit sphere; every ray of the prepare_computations inputs
DegeneratePrepInputs ==
    {in \in PrepInputs : in.i.object = Sphere("s1", identity) /\ in.i.t \in {One, F(4)}}

InitDegenerate ==
    /\ op = "none"
    /\ lit \in DegenerateLightInputs
    /\ color = Nil
    /\ prep \in DegeneratePrepInputs
    /\ comps = Nil
    /\ SceneIdle /\ HitIdle /\ FnIdle

\* lighting(...) called once on the inputs
DegenerateLighting ==
    /\ color = Nil
    /\ op' = "lighting"
    /\ color' = lighting(lit.material, lit.point, lit.object_color, lit.light,
                         lit.eyev, lit.normalv, lit.shadow_attenuation)
    /\ UNCHANGED <<lit, sceneVars, hitVars, prepVars, fnVars>>

\* i.prepare_computations(&ray) called once on the inputs
DegeneratePrepare ==
    /\ comps = Nil
    /\ op' = "prepare_computations"
    /\ comps' = prepare_computations(prep.i, prep.ray)
    /\ UNCHANGED <<prep, sceneVars, hitVars, lightVars, fnVars>>

NextDegenerate == DegenerateLighting \/ DegeneratePrepare

SpecDegenerate == InitDegenerate /\ [][NextDegenerate]_vars

-----------------------------------------------------------------------------
(* Claims about degenerate vectors                                         *)

\* C27: lighting called with the light at the shaded point, and
\* prepare_computations called with a ray of zero-length direction, end in
\* the failure of the normalisation; neither returns a Color or a
\* Precomputation.
C27_NeverSubstituted ==
    /\ (color # Nil /\ lit.light.position = lit.point) => color = Panic
    /\ (comps # Nil /\ prep.ray.direction = <<Zero, Zero, Zero>>) => comps = Panic

\* Both calls made on degenerate inputs, and both failed.
C27_Witness ==
    /\ lit.light.position = lit.point
    /\ prep.ray.direction = <<Zero, Zero, Zero>>
    /\ color = Panic
    /\ comps = Panic

\* lighting fails only when the light is at the shaded point.
C27_OnlyDegenerateFails ==
    color = Panic => lit.light.position = lit.point

=============================================================================
